---- MODULE Spec2Model ----
(***************************************************************************)
(* Model of the evaluation engine of scripts/evaluate.py and               *)
(* scripts/scoring_rubric.py.                                               *)
(*                                                                         *)
(* Numbers: Python floats are modelled as exact rationals <<n, d>> with    *)
(* d > 0 in lowest terms, so every formula of the code is computed as      *)
(* written, without binary rounding.  round(x, 4) is modelled as decimal   *)
(* rounding of the exact value (ties to even); a sum is exact, so it does  *)
(* not depend on the order of its terms.                                   *)
(*                                                                         *)
(* Text: a Python str is a sequence of one-character strings.              *)
(* Optional values (a missing key, None) are <<>>; a present value v is    *)
(* <<v>>.                                                                  *)
(***************************************************************************)
EXTENDS Integers, Sequences, FiniteSets, TLC

\* ------------------------------------------------------------------------
\* State: the callers of the evaluation functions and their locals
\* ------------------------------------------------------------------------

Callers == {1, 2}

VARIABLES
    args,       \* args[c]: the arguments of caller c
    pc,         \* pc[c]: "idle", "loop", "done", "done_by_factor" or "raised"
    frame,      \* frame[c]: the locals of c's call of evaluate
    result,     \* result[c]: what evaluate returned to c, if it has
    by_factor,  \* by_factor[c]: what evaluate_by_factor returned to c, if it has
    matcher,    \* the arguments and locals of a call of sentence_match_score
    scorer      \* the arguments and results of calls of the rubric functions

vars == <<args, pc, frame, result, by_factor, matcher, scorer>>

\* ------------------------------------------------------------------------
\* Exact rational arithmetic (the float operations of the code)
\* ------------------------------------------------------------------------

Abs(x) == IF x < 0 THEN -x ELSE x

RECURSIVE Gcd(_, _)
Gcd(a, b) == IF b = 0 THEN a ELSE Gcd(b, a % b)

Sign(d) == IF d < 0 THEN -1 ELSE 1
Reduce(n, d, g) == <<n \div g, d \div g>>

\* the rational n/d (d # 0) in lowest terms with a positive denominator
R(n, d) == Reduce(Sign(d) * n, Sign(d) * d, Gcd(Abs(n), Abs(d)))

Zero == <<0, 1>>
One == <<1, 1>>
Two == <<2, 1>>
Half == <<1, 2>>

RAdd(x, y) == R(x[1] * y[2] + y[1] * x[2], x[2] * y[2])
RSub(x, y) == R(x[1] * y[2] - y[1] * x[2], x[2] * y[2])
RMul(x, y) == R(x[1] * y[1], x[2] * y[2])
\* x / y for y # 0
RDiv(x, y) == R(x[1] * y[2], x[2] * y[1])
RLeq(x, y) == x[1] * y[2] <= y[1] * x[2]
RLt(x, y) == x[1] * y[2] < y[1] * x[2]
RMax(x, y) == IF RLeq(x, y) THEN y ELSE x
RMin(x, y) == IF RLeq(x, y) THEN x ELSE y
RAbs(x) == <<Abs(x[1]), x[2]>>
RNeg(x) == <<-x[1], x[2]>>
IsZero(x) == x[1] = 0
InUnit(x) == x[1] >= 0 /\ x[1] <= x[2]

\* sum(xs) of a list of floats
RECURSIVE RSum(_)
RSum(xs) == IF xs = <<>> THEN Zero ELSE RAdd(Head(xs), RSum(Tail(xs)))

\* integer part and remainder of n * 10^k / d, one decimal digit at a time
RECURSIVE Expand(_, _, _, _)
Expand(i, r, d, k) ==
    IF k = 0 THEN <<i, r>>
    ELSE Expand(i * 10 + ((r * 10) \div d), (r * 10) % d, d, k - 1)

\* e = <<i, r>>: i ten-thousandths and a remainder of r/d of one; an exact
\* tie goes to the even neighbour (the code, on doubles, decides a tie by the
\* binary expansion of the value)
RoundUp(e, d) ==
    IF 2 * e[2] > d \/ (2 * e[2] = d /\ e[1] % 2 = 1)
    THEN R(e[1] + 1, 10000)
    ELSE R(e[1], 10000)

\* round(x, 4) for x >= 0
RoundNonNeg4(x) == RoundUp(Expand(x[1] \div x[2], x[1] % x[2], x[2], 4), x[2])

\* round(x, 4)
Round4(x) == IF x[1] < 0 THEN RNeg(RoundNonNeg4(RNeg(x))) ELSE RoundNonNeg4(x)

\* ------------------------------------------------------------------------
\* Text
\* ------------------------------------------------------------------------

Whitespace == {" ", "\t"}
WordChars == {"a", "b", "d", "n", "t", "u", "A", "B", "D", "N", "T", "U"}

\* str.lower(), one character
LowerChar(c) ==
    CASE c = "A" -> "a"
      [] c = "B" -> "b"
      [] c = "D" -> "d"
      [] c = "N" -> "n"
      [] c = "T" -> "t"
      [] c = "U" -> "u"
      [] OTHER -> c

\* str.upper(), one character
UpperChar(c) ==
    CASE c = "a" -> "A"
      [] c = "b" -> "B"
      [] c = "d" -> "D"
      [] c = "n" -> "N"
      [] c = "t" -> "T"
      [] c = "u" -> "U"
      [] OTHER -> c

Lower(s) == [i \in 1..Len(s) |-> LowerChar(s[i])]
Upper(s) == [i \in 1..Len(s) |-> UpperChar(s[i])]

\* str.strip()
RECURSIVE LStrip(_)
LStrip(s) ==
    IF s # <<>> /\ Head(s) \in Whitespace THEN LStrip(Tail(s)) ELSE s

RECURSIVE RStrip(_)
RStrip(s) ==
    IF s # <<>> /\ s[Len(s)] \in Whitespace
    THEN RStrip(SubSeq(s, 1, Len(s) - 1))
    ELSE s

Strip(s) == RStrip(LStrip(s))

\* str.split(): the maximal runs of non-whitespace characters, in order.
\* cur is the token being read.
RECURSIVE SplitFrom(_, _)
SplitFrom(s, cur) ==
    IF s = <<>>
    THEN IF cur = <<>> THEN <<>> ELSE <<cur>>
    ELSE IF Head(s) \in Whitespace
         THEN IF cur = <<>>
              THEN SplitFrom(Tail(s), <<>>)
              ELSE <<cur>> \o SplitFrom(Tail(s), <<>>)
         ELSE SplitFrom(Tail(s), Append(cur, Head(s)))

Split(s) == SplitFrom(s, <<>>)

\* " ".join(tokens)
RECURSIVE Join(_)
Join(toks) ==
    IF toks = <<>> THEN <<>>
    ELSE IF Len(toks) = 1 THEN toks[1]
    ELSE toks[1] \o <<" ">> \o Join(Tail(toks))

\* a in b, for strings
IsSubstring(a, b) ==
    \E i \in 1..(Len(b) - Len(a) + 1) : SubSeq(b, i, i + Len(a) - 1) = a

\* normalize_text without s.lower()
NormalizeKeepingCase(s) == Join(Split(Strip(s)))

normalize_text(s) == Join(Split(Strip(Lower(s))))

Range(f) == {f[i] : i \in DOMAIN f}

\* ------------------------------------------------------------------------
\* scripts/evaluate.py: sentence matching
\* ------------------------------------------------------------------------

JaccardSets(sa, sb) ==
    IF sa = {} /\ sb = {} THEN One
    ELSE R(Cardinality(sa \cap sb), Cardinality(sa \cup sb))

\* len(inter) / len(uni) over the token sets; 1.0 when both are empty
jaccard(a, b) == JaccardSets(Range(a), Range(b))

\* the pattern \band\b matches at position i of s (case-sensitive: the
\* pattern is compiled without flags)
AndAt(s, i) ==
    /\ i + 2 <= Len(s)
    /\ s[i] = "a" /\ s[i + 1] = "n" /\ s[i + 2] = "d"
    /\ (i = 1 \/ s[i - 1] \notin WordChars)
    /\ (i + 2 = Len(s) \/ s[i + 3] \notin WordChars)

\* re.split(r"[,;]|\band\b", s): the pieces between the matches, empty
\* pieces included.  cur is the piece being read from position i on.
RECURSIVE ReSplitFrom(_, _, _)
ReSplitFrom(s, i, cur) ==
    IF i > Len(s) THEN <<cur>>
    ELSE IF s[i] \in {",", ";"}
         THEN <<cur>> \o ReSplitFrom(s, i + 1, <<>>)
         ELSE IF AndAt(s, i)
              THEN <<cur>> \o ReSplitFrom(s, i + 3, <<>>)
              ELSE ReSplitFrom(s, i + 1, Append(cur, s[i]))

ReSplit(s) == ReSplitFrom(s, 1, <<>>)

\* [normalize_text(p) for p in parts if p.strip()]
RECURSIVE NormalizedNonEmpty(_)
NormalizedNonEmpty(parts) ==
    IF parts = <<>> THEN <<>>
    ELSE IF Strip(Head(parts)) # <<>>
         THEN <<normalize_text(Head(parts))>> \o NormalizedNonEmpty(Tail(parts))
         ELSE NormalizedNonEmpty(Tail(parts))

\* parts or [normalize_text(s)]
PartsOrWhole(parts, s) == IF parts # <<>> THEN parts ELSE <<normalize_text(s)>>

\* clause_split after s = sentence.strip()
ClausesOfStripped(s) == PartsOrWhole(NormalizedNonEmpty(ReSplit(s)), s)

clause_split(sentence) == ClausesOfStripped(Strip(sentence))

\* if score > best: best = score
Better(best, score) == IF RLt(best, score) THEN score ELSE best

\* the inner loop of sentence_match_score over the candidates' token lists
RECURSIVE BestJaccard(_, _, _)
BestJaccard(ctoks, cand_tokens, best) ==
    IF cand_tokens = <<>> THEN best
    ELSE BestJaccard(ctoks, Tail(cand_tokens), Better(best, jaccard(ctoks, Head(cand_tokens))))

\* substring containment of a non-empty clause, in either direction
Contained(clause, cand_norms) ==
    \E k \in 1..Len(cand_norms) :
        /\ clause # <<>>
        /\ (IsSubstring(clause, cand_norms[k]) \/ IsSubstring(cand_norms[k], clause))

\* best = max(best, 1.0) outside its `if`
RaisedAlways(best, contained) == RMax(best, One)

\* best = max(best, 1.0) when a containment holds
Raised(best, contained) == IF contained THEN RMax(best, One) ELSE best

TokenLists(cand_norms) == [k \in 1..Len(cand_norms) |-> Split(cand_norms[k])]

\* the body of the loop over gt_clauses: the score appended for one clause
ClauseScore(clause, cand_norms) ==
    Raised(BestJaccard(Split(clause), TokenLists(cand_norms), Zero),
           Contained(clause, cand_norms))

CandNorms(candidate_sentences) ==
    [k \in 1..Len(candidate_sentences) |-> normalize_text(candidate_sentences[k])]

\* 0.0 if not scores, else sum(scores) / len(scores)
MeanOrZero(scores) ==
    IF scores = <<>> THEN Zero ELSE RDiv(RSum(scores), <<Len(scores), 1>>)

ClauseScores(gt_clauses, cand_norms) ==
    [k \in 1..Len(gt_clauses) |-> ClauseScore(gt_clauses[k], cand_norms)]

sentence_match_score(gt_sentence, candidate_sentences) ==
    MeanOrZero(ClauseScores(clause_split(gt_sentence), CandNorms(candidate_sentences)))

\* max(0.0, 1.0 - err / 2.0)
sentiment_score_match(gt_score, pred_score) ==
    RMax(Zero, RSub(One, RDiv(RAbs(RSub(gt_score, pred_score)), Two)))

\* ------------------------------------------------------------------------
\* scripts/scoring_rubric.py
\* ------------------------------------------------------------------------

\* a rubric whose slightly_negative range ends at -0.1, short of neutral
RubricWithGap ==
    << [label |-> "strongly_negative", min_score |-> <<-1, 1>>, max_score |-> <<-3, 4>>],
       [label |-> "negative", min_score |-> <<-3, 4>>, max_score |-> <<-7, 20>>],
       [label |-> "slightly_negative", min_score |-> <<-7, 20>>, max_score |-> <<-1, 10>>],
       [label |-> "neutral", min_score |-> <<-1, 20>>, max_score |-> <<1, 20>>],
       [label |-> "slightly_positive", min_score |-> <<1, 20>>, max_score |-> <<7, 20>>],
       [label |-> "positive", min_score |-> <<7, 20>>, max_score |-> <<3, 4>>],
       [label |-> "strongly_positive", min_score |-> <<3, 4>>, max_score |-> <<1, 1>>] >>

SENTIMENT_RUBRIC ==
    << [label |-> "strongly_negative", min_score |-> <<-1, 1>>, max_score |-> <<-3, 4>>],
       [label |-> "negative", min_score |-> <<-3, 4>>, max_score |-> <<-7, 20>>],
       [label |-> "slightly_negative", min_score |-> <<-7, 20>>, max_score |-> <<-1, 20>>],
       [label |-> "neutral", min_score |-> <<-1, 20>>, max_score |-> <<1, 20>>],
       [label |-> "slightly_positive", min_score |-> <<1, 20>>, max_score |-> <<7, 20>>],
       [label |-> "positive", min_score |-> <<7, 20>>, max_score |-> <<3, 4>>],
       [label |-> "strongly_positive", min_score |-> <<3, 4>>, max_score |-> <<1, 1>>] >>

\* SentimentRange.contains
contains(sr, score) == RLeq(sr.min_score, score) /\ RLeq(score, sr.max_score)

\* SentimentRange.center
center(sr) == RDiv(RAdd(sr.min_score, sr.max_score), Two)

\* abs(r.center() - score) for each range r
CenterDistances(score) ==
    [k \in 1..Len(SENTIMENT_RUBRIC) |-> RAbs(RSub(center(SENTIMENT_RUBRIC[k]), score))]

\* min(..., key=...): the first index with the smallest key
FirstSmallest(dist) ==
    CHOOSE k \in 1..Len(dist) :
        /\ \A j \in 1..Len(dist) : RLeq(dist[k], dist[j])
        /\ \A j \in 1..(k - 1) : RLt(dist[k], dist[j])

\* the fallback of score_to_label
ClosestCenter(score) == SENTIMENT_RUBRIC[FirstSmallest(CenterDistances(score))]

\* the ranges that contain the score, by position
ContainingRanges(score) ==
    {k \in 1..Len(SENTIMENT_RUBRIC) : contains(SENTIMENT_RUBRIC[k], score)}

\* the last range that contains the score instead of the first
Largest(ks) == CHOOSE k \in ks : \A j \in ks : j <= k

Smallest(ks) == CHOOSE k \in ks : \A j \in ks : k <= j

\* the loop of score_to_label returns at the first range that contains the
\* score; the fallback follows the loop
LabelOfClamped(score, hits) ==
    IF hits # {} THEN SENTIMENT_RUBRIC[Smallest(hits)].label ELSE ClosestCenter(score).label

\* max(-1.0, min(1.0, score))
Clamp(score) == RMax(<<-1, 1>>, RMin(One, score))

LabelOf(clamped) == LabelOfClamped(clamped, ContainingRanges(clamped))

score_to_label(score) == LabelOf(Clamp(score))

\* the ranges with the given label, by position
RangesLabelled(label) ==
    {k \in 1..Len(SENTIMENT_RUBRIC) : SENTIMENT_RUBRIC[k].label = label}

\* (sr.min_score, sr.max_score) of the first range with the label, or the
\* fallback (-1.0, 1.0)
RangeOf(hits) ==
    IF hits # {}
    THEN <<SENTIMENT_RUBRIC[Smallest(hits)].min_score, SENTIMENT_RUBRIC[Smallest(hits)].max_score>>
    ELSE <<(<<-1, 1>>), One>>

label_to_score_range(label) == RangeOf(RangesLabelled(label))

DEFAULT_TOLERANCE == <<1, 10>>

\* the last branch with the error measured from tolerance, not from
\* 2 * tolerance
PoorMatchFromTolerance(error, two_tol, span) ==
    IF IsZero(span)
    THEN [raised |-> TRUE, value |-> Zero]
    ELSE [raised |-> FALSE,
          value |-> RMax(Zero, RMul(Half, RSub(One, RDiv(RSub(error, RMul(Half, two_tol)), span))))]

\* the last branch of sentiment_match_with_tolerance; span is
\* 2.0 - 2 * tolerance, and dividing by a span of 0.0 raises ZeroDivisionError
PoorMatch(error, two_tol, span) ==
    IF IsZero(span)
    THEN [raised |-> TRUE, value |-> Zero]
    ELSE [raised |-> FALSE,
          value |-> RMax(Zero, RMul(Half, RSub(One, RDiv(RSub(error, two_tol), span))))]

\* 1.0 - (error - tolerance) / tolerance: the factor 0.5 left out
PartialCreditSteep(error, tolerance) ==
    RSub(One, RDiv(RSub(error, tolerance), tolerance))

\* 1.0 - 0.5 * ((error - tolerance) / tolerance)
PartialCredit(error, tolerance) ==
    RSub(One, RMul(Half, RDiv(RSub(error, tolerance), tolerance)))

ToleranceBands(error, tolerance, two_tol) ==
    IF RLeq(error, tolerance)
    THEN [raised |-> FALSE, value |-> One]
    ELSE IF RLeq(error, two_tol)
         THEN [raised |-> FALSE, value |-> PartialCredit(error, tolerance)]
         ELSE PoorMatch(error, two_tol, RSub(Two, two_tol))

\* error = gt_score - pred_score, without abs()
MatchWithSignedError(gt_score, pred_score, tolerance) ==
    ToleranceBands(RSub(gt_score, pred_score), tolerance, RMul(Two, tolerance))

\* the value returned, or raised = TRUE
sentiment_match_with_tolerance(gt_score, pred_score, tolerance) ==
    ToleranceBands(RAbs(RSub(gt_score, pred_score)), tolerance, RMul(Two, tolerance))

label_order ==
    <<"strongly_negative", "negative", "slightly_negative", "neutral",
      "slightly_positive", "positive", "strongly_positive">>

\* list.index
IndexOf(seq, x) == CHOOSE k \in 1..Len(seq) : seq[k] = x /\ \A j \in 1..(k - 1) : seq[j] # x

\* the distance divided by the number of labels instead of by 6.0
LabelDistanceOverSeven(distance) == RMax(Zero, RSub(One, RMul(R(distance, 7), One)))

\* max(0.0, 1.0 - (distance / 6.0) * 1.0)
LabelDistanceScore(distance) == RMax(Zero, RSub(One, RMul(R(distance, 6), One)))

label_match_score(gt_label, pred_label) ==
    LabelDistanceScore(Abs(IndexOf(label_order, gt_label) - IndexOf(label_order, pred_label)))

\* sum(score for _, score in sub_scores)
RECURSIVE ScoreSum(_)
ScoreSum(sub_scores) ==
    IF sub_scores = <<>> THEN Zero
    ELSE RAdd(Head(sub_scores)[2], ScoreSum(Tail(sub_scores)))

\* sum(len(text) for text, _ in sub_scores)
RECURSIVE TotalLength(_)
TotalLength(sub_scores) ==
    IF sub_scores = <<>> THEN 0
    ELSE Len(Head(sub_scores)[1]) + TotalLength(Tail(sub_scores))

\* the sum of the scores, every text weighted alike
RECURSIVE UnweightedSum(_)
UnweightedSum(sub_scores) ==
    IF sub_scores = <<>> THEN Zero
    ELSE RAdd(Head(sub_scores)[2], UnweightedSum(Tail(sub_scores)))

\* sum(len(text) * score for text, score in sub_scores)
RECURSIVE WeightedSum(_)
WeightedSum(sub_scores) ==
    IF sub_scores = <<>> THEN Zero
    ELSE RAdd(RMul(<<Len(Head(sub_scores)[1]), 1>>, Head(sub_scores)[2]),
              WeightedSum(Tail(sub_scores)))

\* the branch "weighted_by_length"
WeightedByLength(sub_scores, total_length) ==
    IF total_length = 0 THEN Zero
    ELSE RDiv(WeightedSum(sub_scores), <<total_length, 1>>)

\* an unknown method answered with 0.0
SilentDefault(method) == [raised |-> FALSE, value |-> Zero]

\* raise ValueError(f"Unknown aggregation method: {method}")
UnknownMethod(method) == [raised |-> TRUE, value |-> Zero]

\* the value returned, or raised = TRUE for the ValueError
aggregate_mixed_sentiment(sub_scores, method) ==
    IF sub_scores = <<>> THEN [raised |-> FALSE, value |-> Zero]
    ELSE IF method = "mean"
         THEN [raised |-> FALSE, value |-> RDiv(ScoreSum(sub_scores), <<Len(sub_scores), 1>>)]
         ELSE IF method = "weighted_by_length"
              THEN [raised |-> FALSE,
                    value |-> WeightedByLength(sub_scores, TotalLength(sub_scores))]
              ELSE UnknownMethod(method)

contrast_words ==
    <<<<"b", "u", "t">>,
      <<"h", "o", "w", "e", "v", "e", "r">>,
      <<"a", "l", "t", "h", "o", "u", "g", "h">>,
      <<"d", "e", "s", "p", "i", "t", "e">>,
      <<"w", "h", "i", "l", "e">>,
      <<"y", "e", "t">>,
      <<"n", "e", "v", "e", "r", "t", "h", "e", "l", "e", "s", "s">>>>

contrast_patterns ==
    <<<<<<"i", "n", "c", "r", "e", "a", "s", "e", "d">>, <<"o", "f", "f", "s", "e", "t">>>>,
      <<<<"g", "r", "o", "w", "t", "h">>, <<"d", "e", "c", "l", "i", "n", "e">>>>,
      <<<<"b", "e", "n", "e", "f", "i", "t", "e", "d">>, <<"i", "m", "p", "a", "c", "t", "e", "d">>>>,
      <<<<"i", "m", "p", "r", "o", "v", "e", "d">>, <<"d", "e", "c", "r", "e", "a", "s", "e", "d">>>>,
      <<<<"g", "a", "i", "n">>, <<"l", "o", "s", "s">>>>>>

hedge_words ==
    <<<<"p", "a", "r", "t", "i", "a", "l", "l", "y">>,
      <<"s", "o", "m", "e", "w", "h", "a", "t">>,
      <<"t", "o", " ", "s", "o", "m", "e", " ", "e", "x", "t", "e", "n", "t">>,
      <<"l", "a", "r", "g", "e", "l", "y", " ", "o", "f", "f", "s", "e", "t">>,
      <<"m", "o", "s", "t", "l", "y", " ", "o", "f", "f", "s", "e", "t">>>>

\* the contrast words found as space-delimited words of the lowercased text
ContrastWordHits(text_lower) ==
    LET WordHit(word) ==
            IsSubstring(<<" ">> \o word \o <<" ">>, <<" ">> \o text_lower \o <<" ">>)
    IN  SelectSeq(contrast_words, WordHit)

\* "<pos>...<neg>" for each pattern whose two cues both occur
ContrastPatternHits(text_lower) ==
    LET PatternHit(p) == IsSubstring(p[1], text_lower) /\ IsSubstring(p[2], text_lower)
        Indicator(p) == p[1] \o <<".", ".", ".">> \o p[2]
        Indicators(hits) == [k \in 1..Len(hits) |-> Indicator(hits[k])]
    IN  Indicators(SelectSeq(contrast_patterns, PatternHit))

\* the hedge phrases that occur
HedgeHits(text_lower) ==
    LET HedgeHit(h) == IsSubstring(h, text_lower)
    IN  SelectSeq(hedge_words, HedgeHit)

IndicatorsOfLower(text_lower) ==
    ContrastWordHits(text_lower) \o ContrastPatternHits(text_lower) \o HedgeHits(text_lower)

detect_mixed_sentiment_indicators(text) == IndicatorsOfLower(Lower(text))

\* the conjunctions of the pattern of split_mixed_sentiment_sentence
split_words ==
    <<<<"b", "u", "t">>,
      <<"h", "o", "w", "e", "v", "e", "r">>,
      <<"a", "l", "t", "h", "o", "u", "g", "h">>,
      <<"d", "e", "s", "p", "i", "t", "e">>,
      <<"w", "h", "i", "l", "e">>,
      <<"y", "e", "t">>>>

\* the word of r"\s+and\s+"
and_word == <<<<"a", "n", "d">>>>

\* the first position from i on that holds no whitespace: where a greedy \s+
\* that starts at i ends
RECURSIVE SkipSpace(_, _)
SkipSpace(s, i) ==
    IF i <= Len(s) /\ s[i] \in Whitespace THEN SkipSpace(s, i + 1) ELSE i

\* the word w stands at position j of s in some letter case (re.IGNORECASE)
\* and whitespace follows it
WordThenSpaceAt(s, j, w) ==
    /\ j + Len(w) <= Len(s)
    /\ Lower(SubSeq(s, j, j + Len(w) - 1)) = w
    /\ s[j + Len(w)] \in Whitespace

\* the position after the match of \s+(?:w1|w2|..)\s+ that starts at i with
\* its whitespace ending before j, or 0 when there is no match at i
WordMatchEnd(s, i, j, words) ==
    LET Hit(w) == WordThenSpaceAt(s, j, w)
    IN  IF j = i \/ SelectSeq(words, Hit) = <<>> THEN 0
        ELSE SkipSpace(s, j + Len(SelectSeq(words, Hit)[1]))

\* re.split of s on a separator character or \s+(?:words)\s+, the empty
\* pieces included.  cur is the piece being read from position i on.
RECURSIVE PatternSplitFrom(_, _, _, _, _)
PatternSplitFrom(s, i, cur, separators, words) ==
    IF i > Len(s) THEN <<cur>>
    ELSE IF s[i] \in separators
         THEN <<cur>> \o PatternSplitFrom(s, i + 1, <<>>, separators, words)
         ELSE IF WordMatchEnd(s, i, SkipSpace(s, i), words) # 0
              THEN <<cur>> \o PatternSplitFrom(s, WordMatchEnd(s, i, SkipSpace(s, i), words),
                                                <<>>, separators, words)
              ELSE PatternSplitFrom(s, i + 1, Append(cur, s[i]), separators, words)

\* [p.strip() for p in parts if p.strip()]
RECURSIVE StrippedNonEmpty(_)
StrippedNonEmpty(parts) ==
    IF parts = <<>> THEN <<>>
    ELSE IF Strip(Head(parts)) # <<>>
         THEN <<Strip(Head(parts))>> \o StrippedNonEmpty(Tail(parts))
         ELSE StrippedNonEmpty(Tail(parts))

\* the pieces one part adds to final_parts
AndParts(part) ==
    IF IsSubstring(<<" ", "a", "n", "d", " ">>, Lower(part))
    THEN StrippedNonEmpty(PatternSplitFrom(part, 1, <<>>, {}, and_word))
    ELSE <<part>>

\* the loop over parts that fills final_parts
RECURSIVE FinalParts(_)
FinalParts(parts) ==
    IF parts = <<>> THEN <<>> ELSE AndParts(Head(parts)) \o FinalParts(Tail(parts))

\* final_parts if final_parts else [sentence]
FinalOrSentence(final_parts, sentence) ==
    IF final_parts # <<>> THEN final_parts ELSE <<sentence>>

\* the list returned for a sentence split on the given conjunctions
SplitOnConjunctions(sentence, words) ==
    FinalOrSentence(
        FinalParts(StrippedNonEmpty(PatternSplitFrom(sentence, 1, <<>>, {",", ";"}, words))),
        sentence)

split_mixed_sentiment_sentence(sentence) == SplitOnConjunctions(sentence, split_words)

\* ------------------------------------------------------------------------
\* scripts/evaluate.py: evaluate
\* ------------------------------------------------------------------------

None == <<>>
Some(v) == <<v>>

\* gt.get("factor", "unknown")
FactorOrUnknown(gt) == IF gt.factor = None THEN "unknown" ELSE gt.factor[1]

\* the dict returned when there are indicators, else None
MixedAnalysis(gt_record, pred_record, indicators) ==
    IF indicators = <<>> THEN None
    ELSE Some([is_mixed |-> TRUE,
               indicators |-> indicators,
               gt_clauses |-> gt_record.clauses,
               gt_score |-> gt_record.sentiment_score,
               pred_score |-> pred_record.sentiment_score])

analyze_mixed_sentiment(gt_record, pred_record) ==
    MixedAnalysis(gt_record, pred_record, detect_mixed_sentiment_indicators(gt_record.sentence))

\* (basic_score, tolerance_score, label_score_val), or raised = TRUE when
\* sentiment_match_with_tolerance raises
EnhancedScores(basic_score, tolerance_score, label_score_val) ==
    [raised |-> tolerance_score.raised,
     basic |-> basic_score,
     tol |-> tolerance_score.value,
     label |-> label_score_val]

sentiment_score_match_enhanced(gt_score, pred_score, tolerance) ==
    EnhancedScores(sentiment_score_match(gt_score, pred_score),
                   sentiment_match_with_tolerance(gt_score, pred_score, tolerance),
                   label_match_score(score_to_label(gt_score), score_to_label(pred_score)))

\* a lookup in which the first record with an id is kept
RECURSIVE PredByIdFirst(_, _)
PredByIdFirst(pred_records, acc) ==
    IF pred_records = <<>> THEN acc
    ELSE PredByIdFirst(Tail(pred_records), acc @@ (Head(pred_records).id :> Head(pred_records)))

\* the dict comprehension {p.get("id"): p for p in pred_records}: a later
\* record replaces an earlier one with the same id
RECURSIVE PredById(_, _)
PredById(pred_records, acc) ==
    IF pred_records = <<>> THEN acc
    ELSE PredById(Tail(pred_records), (Head(pred_records).id :> Head(pred_records)) @@ acc)

\* a lookup that falls back to some record when the id is absent
LookupWithFallback(pred_by_id, gid) ==
    IF gid \in DOMAIN pred_by_id THEN Some(pred_by_id[gid])
    ELSE IF DOMAIN pred_by_id = {} THEN None
    ELSE Some(pred_by_id[CHOOSE i \in DOMAIN pred_by_id : TRUE])

\* pred_by_id.get(gid)
Lookup(pred_by_id, gid) ==
    IF gid \in DOMAIN pred_by_id THEN Some(pred_by_id[gid]) ELSE None

\* accumulators kept at module level: the lists of the first caller
SharedAccumulators == frame[1].acc

\* the empty lists of lines 177-186
FreshAccumulators ==
    [id_scores |-> <<>>,
     sent_basic_scores |-> <<>>,
     sent_tolerance_scores |-> <<>>,
     sent_label_scores |-> <<>>,
     per_item_details |-> <<>>,
     mixed_items |-> <<>>]

\* the locals of a call of evaluate before its loop
NewFrame(pred_records) ==
    [pred_by_id |-> PredById(pred_records, <<>>), acc |-> FreshAccumulators, items |-> 0]

\* the gt_sentence entry of item_detail
DetailSentence(sentence) ==
    IF Len(sentence) > 100 THEN SubSeq(sentence, 1, 100) \o <<".", ".", ".">> ELSE sentence

ItemDetail(gt) ==
    [id |-> gt.id,
     factor |-> FactorOrUnknown(gt),
     gt_score |-> gt.sentiment_score,
     gt_label |-> gt.sentiment_label,
     gt_sentence |-> DetailSentence(gt.sentence)]

\* an item without a prediction scored as a hit
MissingScoreOne == One

\* the score appended to each accumulator for an item without a prediction
MissingScore == Zero

\* the branch `if not pred`, ended by `continue`
MissingBody(f, gt) ==
    [f EXCEPT !.items = @ + 1,
              !.acc.id_scores = Append(@, MissingScore),
              !.acc.sent_basic_scores = Append(@, MissingScore),
              !.acc.sent_tolerance_scores = Append(@, MissingScore),
              !.acc.sent_label_scores = Append(@, MissingScore),
              !.acc.per_item_details =
                  Append(@, [detail |-> ItemDetail(gt),
                             pred_score |-> None,
                             identification_score |-> MissingScore,
                             sentiment_basic |-> MissingScore,
                             sentiment_tolerance |-> MissingScore,
                             sentiment_label |-> MissingScore,
                             score_error |-> None,
                             missing_prediction |-> TRUE,
                             has_mixed_sentiment |-> FALSE])]

\* pred.get("sentences", []) or pred.get("support_sentences", [])
CandidatesSentencesFirst(pred) ==
    IF pred.sentences # <<>> THEN pred.sentences ELSE pred.support_sentences

\* pred.get("support_sentences", []) or pred.get("sentences", [])
Candidates(pred) ==
    IF pred.support_sentences # <<>> THEN pred.support_sentences ELSE pred.sentences

\* the three sentiment scores with `if not ps` for `if ps is None`
SentimentScoresFalsy(gt, ps, tolerance) ==
    IF ps = None \/ IsZero(ps[1])
    THEN [raised |-> FALSE, basic |-> Zero, tol |-> Zero, label |-> Zero]
    ELSE sentiment_score_match_enhanced(gt.sentiment_score, ps[1], tolerance)

\* the three sentiment scores of an item with a prediction: 0.0 each when
\* ps is None
SentimentScores(gt, ps, tolerance) ==
    IF ps = None
    THEN [raised |-> FALSE, basic |-> Zero, tol |-> Zero, label |-> Zero]
    ELSE sentiment_score_match_enhanced(gt.sentiment_score, ps[1], tolerance)

\* abs(gt_score - pred_score) of item_detail
ScoreError(gt, ps) ==
    IF ps = None THEN None ELSE Some(RAbs(RSub(gt.sentiment_score, ps[1])))

\* lines 221-262 with match_score, the sentiment scores s and mixed_analysis
\* computed; a frame with raised = TRUE is the state in which the
\* ZeroDivisionError leaves the loop
ScoredBody(f, gt, ps, match_score, s, mixed_analysis) ==
    IF s.raised
    THEN [raised |-> TRUE,
          frame |-> [f EXCEPT !.items = @ + 1, !.acc.id_scores = Append(@, match_score)]]
    ELSE [raised |-> FALSE,
          frame |->
            [f EXCEPT
               !.items = @ + 1,
               !.acc.id_scores = Append(@, match_score),
               !.acc.sent_basic_scores = Append(@, s.basic),
               !.acc.sent_tolerance_scores = Append(@, s.tol),
               !.acc.sent_label_scores = Append(@, s.label),
               !.acc.mixed_items =
                   IF mixed_analysis = None THEN @
                   ELSE Append(@, [id |-> gt.id, analysis |-> mixed_analysis[1]]),
               !.acc.per_item_details =
                   Append(@, [detail |-> ItemDetail(gt),
                              pred_score |-> ps,
                              identification_score |-> match_score,
                              sentiment_basic |-> s.basic,
                              sentiment_tolerance |-> s.tol,
                              sentiment_label |-> s.label,
                              score_error |-> ScoreError(gt, ps),
                              missing_prediction |-> FALSE,
                              has_mixed_sentiment |-> mixed_analysis # None])]]

\* the loop body for an item with a prediction
PredictedBody(f, gt, pred, tolerance) ==
    ScoredBody(f, gt, pred.sentiment_score,
               sentence_match_score(gt.sentence, Candidates(pred)),
               SentimentScores(gt, pred.sentiment_score, tolerance),
               analyze_mixed_sentiment(gt, pred))

BodyFor(f, gt, pred, tolerance) ==
    IF pred = None
    THEN [raised |-> FALSE, frame |-> MissingBody(f, gt)]
    ELSE PredictedBody(f, gt, pred[1], tolerance)

\* one pass of `for gt in gt_records`
LoopBody(f, gt, tolerance) == BodyFor(f, gt, Lookup(f.pred_by_id, gt.id), tolerance)

\* the mean over the items that scored above 0.0
MeanOverScored(scores, items) ==
    LET Scored(x) == ~IsZero(x)
    IN  IF SelectSeq(scores, Scored) # <<>>
        THEN RDiv(RSum(scores), <<Len(SelectSeq(scores, Scored)), 1>>)
        ELSE Zero

\* sum(scores) / items if items else 0.0
Mean(scores, items) ==
    IF items # 0 THEN RDiv(RSum(scores), <<items, 1>>) ELSE Zero

\* 0.5 * sentiment_tolerance + 0.3 * sentiment_basic + 0.2 * sentiment_label
CombinedSentiment(sentiment_tolerance, sentiment_basic, sentiment_label) ==
    RAdd(RAdd(RMul(<<1, 2>>, sentiment_tolerance), RMul(<<3, 10>>, sentiment_basic)),
         RMul(<<1, 5>>, sentiment_label))

\* 0.4 * identification + 0.6 * sentiment
Composite(identification, sentiment) ==
    RAdd(RMul(<<2, 5>>, identification), RMul(<<3, 5>>, sentiment))

\* mixed_items[-5:]
LastFive(xs) == SubSeq(xs, IF Len(xs) < 5 THEN 1 ELSE Len(xs) - 4, Len(xs))

\* mixed_items[:5]
FirstFive(xs) == SubSeq(xs, 1, IF Len(xs) < 5 THEN Len(xs) ELSE 5)

\* the entry mixed_sentiment_analysis, set `if mixed_items`
MixedSummary(mixed_items) ==
    IF mixed_items # <<>>
    THEN Some([count |-> Len(mixed_items), items |-> FirstFive(mixed_items)])
    ELSE None

\* the result dict of lines 277-298
Report(f, identification, sentiment_basic, sentiment_tolerance, sentiment_label, sentiment, composite, tolerance, detailed) ==
    [items |-> f.items,
     identification |-> Round4(identification),
     sentiment_basic |-> Round4(sentiment_basic),
     sentiment_tolerance |-> Round4(sentiment_tolerance),
     sentiment_label |-> Round4(sentiment_label),
     sentiment |-> Round4(sentiment),
     composite |-> Round4(composite),
     tolerance_used |-> tolerance,
     mixed_sentiment_count |-> Len(f.acc.mixed_items),
     mixed_sentiment_analysis |-> MixedSummary(f.acc.mixed_items),
     per_item |-> IF detailed THEN Some(f.acc.per_item_details) ELSE None]

\* lines 272-298 from the four averages
Weighted(f, identification, sentiment_basic, sentiment_tolerance, sentiment_label, sentiment, tolerance, detailed) ==
    Report(f, identification, sentiment_basic, sentiment_tolerance, sentiment_label,
           sentiment, Composite(identification, sentiment), tolerance, detailed)

\* the weights applied to the rounded averages
AveragedRounded(f, identification, sentiment_basic, sentiment_tolerance, sentiment_label, tolerance, detailed) ==
    Weighted(f, identification, sentiment_basic, sentiment_tolerance, sentiment_label,
             CombinedSentiment(Round4(sentiment_tolerance), Round4(sentiment_basic),
                               Round4(sentiment_label)),
             tolerance, detailed)

Averaged(f, identification, sentiment_basic, sentiment_tolerance, sentiment_label, tolerance, detailed) ==
    Weighted(f, identification, sentiment_basic, sentiment_tolerance, sentiment_label,
             CombinedSentiment(sentiment_tolerance, sentiment_basic, sentiment_label),
             tolerance, detailed)

\* lines 264-298: what evaluate returns once its loop is over
Finish(f, tolerance, detailed) ==
    Averaged(f,
             Mean(f.acc.id_scores, f.items),
             Mean(f.acc.sent_basic_scores, f.items),
             Mean(f.acc.sent_tolerance_scores, f.items),
             Mean(f.acc.sent_label_scores, f.items),
             tolerance, detailed)

\* the loop of evaluate from frame f over the records gts
RECURSIVE RunLoop(_, _, _)
RECURSIVE Continue(_, _, _)
RunLoop(f, gts, tolerance) ==
    IF gts = <<>> THEN [raised |-> FALSE, frame |-> f]
    ELSE Continue(LoopBody(f, Head(gts), tolerance), Tail(gts), tolerance)

Continue(b, rest, tolerance) ==
    IF b.raised THEN b ELSE RunLoop(b.frame, rest, tolerance)

Outcome(r, tolerance, detailed) ==
    IF r.raised THEN [raised |-> TRUE, result |-> None]
    ELSE [raised |-> FALSE, result |-> Some(Finish(r.frame, tolerance, detailed))]

\* a whole call of evaluate: its result, or raised
evaluate(gt_records, pred_records, tolerance, detailed) ==
    Outcome(RunLoop(NewFrame(pred_records), gt_records, tolerance), tolerance, detailed)

\* ------------------------------------------------------------------------
\* scripts/evaluate.py: evaluate_by_factor
\* ------------------------------------------------------------------------

\* the factor names of the model in lexicographic order, the order of sorted()
SortedFactorNames == <<"fx", "interest_rates", "unknown">>

\* set(gt.get("factor", "unknown") for gt in gt_records)
FactorSet(gt_records) == {FactorOrUnknown(gt_records[k]) : k \in 1..Len(gt_records)}

Sorted(factors) ==
    LET Present(name) == name \in factors
    IN  SelectSeq(SortedFactorNames, Present)

\* the filter on the factor left out: every group gets every record
FactorGtUnfiltered(gt_records, factor) == gt_records

\* [gt for gt in gt_records if gt.get("factor") == factor]
FactorGt(gt_records, factor) ==
    LET Same(gt) == gt.factor = Some(factor)
    IN  SelectSeq(gt_records, Same)

GroupIds(factor_gt) == {factor_gt[k].id : k \in 1..Len(factor_gt)}

\* [p for p in pred_records if p.get("id") in {gt["id"] for gt in factor_gt}]
FactorPred(pred_records, ids) ==
    LET Member(p) == p.id \in ids
    IN  SelectSeq(pred_records, Member)

\* evaluate(factor_gt, factor_pred, tolerance, detailed=False)
EvaluateGroup(factor_gt, pred_records, tolerance) ==
    evaluate(factor_gt, FactorPred(pred_records, GroupIds(factor_gt)), tolerance, FALSE)

\* the factors of gt_records in the order in which they first appear
RECURSIVE FirstSeen(_, _)
FirstSeen(gt_records, seen) ==
    IF gt_records = <<>> THEN seen
    ELSE IF \E k \in 1..Len(seen) : seen[k] = FactorOrUnknown(Head(gt_records))
         THEN FirstSeen(Tail(gt_records), seen)
         ELSE FirstSeen(Tail(gt_records), Append(seen, FactorOrUnknown(Head(gt_records))))

\* the loop over the factors in first-seen order instead of sorted(factors)
GroupsUnsorted(gt_records, pred_records, tolerance, names) ==
    [k \in 1..Len(names) |->
        [factor |-> FirstSeen(gt_records, <<>>)[k],
         outcome |-> EvaluateGroup(FactorGt(gt_records, FirstSeen(gt_records, <<>>)[k]),
                                   pred_records, tolerance)]]

\* the loop over sorted(factors)
Groups(gt_records, pred_records, tolerance, names) ==
    [k \in 1..Len(names) |->
        [factor |-> names[k],
         outcome |-> EvaluateGroup(FactorGt(gt_records, names[k]), pred_records, tolerance)]]

ByFactorOutcome(groups, overall) ==
    IF (\E k \in 1..Len(groups) : groups[k].outcome.raised) \/ overall.raised
    THEN [raised |-> TRUE, result |-> None]
    ELSE [raised |-> FALSE,
          result |-> Some([overall |-> overall.result[1],
                           by_factor |-> [k \in 1..Len(groups) |->
                                            [factor |-> groups[k].factor,
                                             result |-> groups[k].outcome.result[1]]]])]

evaluate_by_factor(gt_records, pred_records, tolerance) ==
    ByFactorOutcome(Groups(gt_records, pred_records, tolerance, Sorted(FactorSet(gt_records))),
                    evaluate(gt_records, pred_records, tolerance, FALSE))

\* ------------------------------------------------------------------------
\* Inputs
\* ------------------------------------------------------------------------

\* the largest number of ground-truth records and of prediction records
MaxGt == 2
MaxPred == 2

SentAB == <<"a", ",", "b">>
SentAButB == <<"a", " ", "b", "u", "t", " ", "b">>
SentBAndD == <<"b", " ", "a", "n", "d", " ", "d">>
SentA == <<"a">>

\* ground-truth records (the fields of make_record, one id each); the third
\* has no factor key
GtPool ==
    { [id |-> "s1", sentence |-> SentAB, sentiment_score |-> <<4, 5>>,
       sentiment_label |-> "positive", factor |-> Some("interest_rates"), clauses |-> <<>>],
      [id |-> "s2", sentence |-> SentAButB, sentiment_score |-> <<-3, 5>>,
       sentiment_label |-> "negative", factor |-> Some("fx"), clauses |-> <<SentA>>],
      [id |-> "s3", sentence |-> SentBAndD, sentiment_score |-> Zero,
       sentiment_label |-> "neutral", factor |-> None, clauses |-> <<>>] }

\* prediction records: for s1 a score inside [-1,1] with the sentence quoted
\* and a score outside [-1,1] with the evidence under the fallback key, for
\* s2 no score, and one for an id that no ground-truth record has
PredPool ==
    { [id |-> "s1", sentiment_score |-> Some(<<-1, 10>>),
       support_sentences |-> <<SentAB>>, sentences |-> <<>>],
      [id |-> "s1", sentiment_score |-> Some(<<-5, 2>>),
       support_sentences |-> <<>>, sentences |-> <<SentA>>],
      [id |-> "s2", sentiment_score |-> None,
       support_sentences |-> <<SentA>>, sentences |-> <<>>],
      [id |-> "s9", sentiment_score |-> Some(<<-1, 10>>),
       support_sentences |-> <<SentAB>>, sentences |-> <<>>] }

\* the --tolerance values: the default and 1.0
Tolerances == {DEFAULT_TOLERANCE, One}

SeqsUpTo(S, n) == UNION {[1..k -> S] : k \in 0..n}

DistinctIds(rs) == \A i, j \in 1..Len(rs) : i # j => rs[i].id # rs[j].id

GtSeqs == {rs \in SeqsUpTo(GtPool, MaxGt) : DistinctIds(rs)}
PredSeqs == SeqsUpTo(PredPool, MaxPred)

Inputs ==
    { [gt_records |-> g, pred_records |-> p, tolerance |-> t, detailed |-> TRUE] :
        g \in GtSeqs, p \in PredSeqs, t \in Tolerances }

Reverse(xs) == [k \in 1..Len(xs) |-> xs[Len(xs) + 1 - k]]
RotateLeft(xs) == IF xs = <<>> THEN <<>> ELSE Append(Tail(xs), Head(xs))

\* the predictions whose id is the id of some ground-truth record
DropUnmatched(preds, gts) ==
    LET Matched(p) == \E k \in 1..Len(gts) : gts[k].id = p.id
    IN  SelectSeq(preds, Matched)

\* the predictions that no later prediction with the same id follows
RECURSIVE DropShadowed(_)
DropShadowed(preds) ==
    IF preds = <<>> THEN <<>>
    ELSE IF \E k \in 2..Len(preds) : preds[k].id = Head(preds).id
         THEN DropShadowed(Tail(preds))
         ELSE <<Head(preds)>> \o DropShadowed(Tail(preds))

\* the arguments of a second call of evaluate that is compared with a call
\* on a: the same, without the unmatched predictions, without the shadowed
\* duplicates
Variants(a) ==
    { a,
      [a EXCEPT !.pred_records = DropUnmatched(a.pred_records, a.gt_records)],
      [a EXCEPT !.pred_records = DropShadowed(a.pred_records)] }

\* the arguments of a second call that gets the records of a in another order
Reorderings(a) ==
    { a,
      [a EXCEPT !.pred_records = Reverse(a.pred_records)],
      [a EXCEPT !.gt_records = Reverse(a.gt_records)],
      [a EXCEPT !.gt_records = RotateLeft(a.gt_records),
                !.pred_records = RotateLeft(a.pred_records)] }

\* the longest ground-truth sentence and the longest candidate drawn
\* character by character for sentence_match_score
MaxSentenceLen == 3
MaxCandLen == 2

SentenceChars == {"a", "n", "d", "A", " ", ","}
CandChars == {"a", "n", " "}

\* longer sentences with the word `and` between words, in both cases
SentAAndN == <<"a", " ", "a", "n", "d", " ", "n">>
SentAUpperAndN == <<"a", " ", "A", "N", "D", " ", "n">>
SentListAnd == <<"n", ",", "a", " ", "a", "n", "d", " ", "d">>

Sentences ==
    SeqsUpTo(SentenceChars, MaxSentenceLen)
        \cup {SentAAndN, SentAUpperAndN, SentListAnd, SentAButB}

\* s with every whitespace character replaced by a tab and a space
RECURSIVE WidenSpaces(_)
WidenSpaces(s) ==
    IF s = <<>> THEN <<>>
    ELSE IF Head(s) \in Whitespace
         THEN <<"\t", " ">> \o WidenSpaces(Tail(s))
         ELSE <<Head(s)>> \o WidenSpaces(Tail(s))

\* sentences equal to s up to letter case and whitespace
CaseSpaceVariants(s) ==
    {s, Upper(s), Lower(s), <<" ">> \o s \o <<"\t">>, WidenSpaces(s)}

\* the candidate lists tried against s: none, one of the variants of s, one
\* short sentence
CandidateLists(s) ==
    {<<>>} \cup {<<t>> : t \in CaseSpaceVariants(s) \cup SeqsUpTo(CandChars, MaxCandLen)}

\* ------------------------------------------------------------------------
\* State
\* ------------------------------------------------------------------------

NoMatcher ==
    [pc |-> "idle", gt_sentence |-> <<>>, candidate_sentences |-> <<>>,
     gt_clauses |-> <<>>, cand_norms |-> <<>>, scores |-> <<>>, value |-> None]

\* no call of a rubric function
NoScorer == [pc |-> "idle"]

\* the locals of a caller that has not entered evaluate
NoFrame ==
    [pred_by_id |-> <<>>,
     acc |-> [id_scores |-> <<>>, sent_basic_scores |-> <<>>,
              sent_tolerance_scores |-> <<>>, sent_label_scores |-> <<>>,
              per_item_details |-> <<>>, mixed_items |-> <<>>],
     items |-> 0]

IdleCallers ==
    /\ pc = [c \in Callers |-> "idle"]
    /\ frame = [c \in Callers |-> NoFrame]
    /\ result = [c \in Callers |-> None]
    /\ by_factor = [c \in Callers |-> None]

\* ------------------------------------------------------------------------
\* Spec: two callers of evaluate, the second on a variant of the first's
\* arguments, their steps interleaved
\* ------------------------------------------------------------------------

Init ==
    /\ \E a \in Inputs : \E b \in Variants(a) :
         args = [c \in Callers |-> IF c = 1 THEN a ELSE b]
    /\ IdleCallers
    /\ matcher = NoMatcher
    /\ scorer = NoScorer

\* evaluate is entered: lines 174-188
Call(c) ==
    /\ pc[c] = "idle"
    /\ frame' = [frame EXCEPT ![c] = NewFrame(args[c].pred_records)]
    /\ pc' = [pc EXCEPT ![c] = "loop"]
    /\ UNCHANGED <<args, result, by_factor, matcher, scorer>>

\* the state after a pass b of the loop
Passed(c, b) ==
    /\ frame' = [frame EXCEPT ![c] = b.frame]
    /\ pc' = [pc EXCEPT ![c] = IF b.raised THEN "raised" ELSE "loop"]

\* one pass of the loop of lines 189-262, or the exception that ends the call
Iterate(c) ==
    /\ pc[c] = "loop"
    /\ frame[c].items < Len(args[c].gt_records)
    /\ Passed(c, LoopBody(frame[c], args[c].gt_records[frame[c].items + 1], args[c].tolerance))
    /\ UNCHANGED <<args, result, by_factor, matcher, scorer>>

\* the loop is over: lines 264-298
Return(c) ==
    /\ pc[c] = "loop"
    /\ frame[c].items = Len(args[c].gt_records)
    /\ result' = [result EXCEPT ![c] = Some(Finish(frame[c], args[c].tolerance, args[c].detailed))]
    /\ pc' = [pc EXCEPT ![c] = "done"]
    /\ UNCHANGED <<args, frame, by_factor, matcher, scorer>>

Next == \E c \in Callers : Call(c) \/ Iterate(c) \/ Return(c)

Spec == Init /\ [][Next]_vars

\* ------------------------------------------------------------------------
\* SpecByFactor: two callers of evaluate_by_factor, the second with the
\* records of the first in another order
\* ------------------------------------------------------------------------

\* a second ground-truth record with the factor of s2, and a prediction for it
GtSameFactor ==
    [id |-> "s4", sentence |-> SentA, sentiment_score |-> <<-3, 5>>,
     sentiment_label |-> "negative", factor |-> Some("fx"), clauses |-> <<>>]

PredSameFactor ==
    [id |-> "s4", sentiment_score |-> Some(<<-1, 10>>),
     support_sentences |-> <<SentA>>, sentences |-> <<>>]

\* the ground-truth records that carry a factor
GtWithFactor == {gt \in GtPool : gt.factor # None} \cup {GtSameFactor}

\* inputs in which GtSameFactor shares or does not share its factor with the
\* other records, with no prediction or with a prediction for it
SameFactorInputs ==
    { [gt_records |-> g, pred_records |-> p, tolerance |-> DEFAULT_TOLERANCE, detailed |-> TRUE] :
        g \in {rs \in SeqsUpTo(GtWithFactor, MaxGt) :
                  DistinctIds(rs) /\ \E k \in 1..Len(rs) : rs[k] = GtSameFactor},
        p \in {<<>>, <<PredSameFactor>>} }

InitByFactor ==
    /\ \E a \in Inputs \cup SameFactorInputs : \E b \in Reorderings(a) :
         args = [c \in Callers |-> IF c = 1 THEN a ELSE b]
    /\ IdleCallers
    /\ matcher = NoMatcher
    /\ scorer = NoScorer

\* the state after evaluate_by_factor ended with outcome r
Returned(c, r) ==
    /\ by_factor' = [by_factor EXCEPT ![c] = r.result]
    /\ pc' = [pc EXCEPT ![c] = IF r.raised THEN "raised" ELSE "done_by_factor"]

\* a call of evaluate_by_factor: lines 301-328
ByFactor(c) ==
    /\ pc[c] = "idle"
    /\ Returned(c, evaluate_by_factor(args[c].gt_records, args[c].pred_records, args[c].tolerance))
    /\ UNCHANGED <<args, frame, result, matcher, scorer>>

NextByFactor == \E c \in Callers : ByFactor(c)

SpecByFactor == InitByFactor /\ [][NextByFactor]_vars

\* ------------------------------------------------------------------------
\* SpecMatch: a call of sentence_match_score
\* ------------------------------------------------------------------------

InitMatch ==
    /\ \E s \in Sentences : \E cs \in CandidateLists(s) :
         matcher = [NoMatcher EXCEPT !.gt_sentence = s, !.candidate_sentences = cs]
    /\ args = [c \in Callers |->
                 [gt_records |-> <<>>, pred_records |-> <<>>,
                  tolerance |-> DEFAULT_TOLERANCE, detailed |-> FALSE]]
    /\ IdleCallers
    /\ scorer = NoScorer

\* lines 72-75
MatchEnter ==
    /\ matcher.pc = "idle"
    /\ matcher' = [matcher EXCEPT !.pc = "clauses",
                                  !.gt_clauses = clause_split(matcher.gt_sentence),
                                  !.cand_norms = CandNorms(matcher.candidate_sentences)]
    /\ UNCHANGED <<args, pc, frame, result, by_factor, scorer>>

\* one pass of the loop of lines 76-87
MatchClause ==
    /\ matcher.pc = "clauses"
    /\ Len(matcher.scores) < Len(matcher.gt_clauses)
    /\ matcher' = [matcher EXCEPT !.scores =
                       Append(@, ClauseScore(matcher.gt_clauses[Len(matcher.scores) + 1],
                                             matcher.cand_norms))]
    /\ UNCHANGED <<args, pc, frame, result, by_factor, scorer>>

\* lines 88-90
MatchReturn ==
    /\ matcher.pc = "clauses"
    /\ Len(matcher.scores) = Len(matcher.gt_clauses)
    /\ matcher' = [matcher EXCEPT !.pc = "done", !.value = Some(MeanOrZero(matcher.scores))]
    /\ UNCHANGED <<args, pc, frame, result, by_factor, scorer>>

NextMatch == MatchEnter \/ MatchClause \/ MatchReturn

SpecMatch == InitMatch /\ [][NextMatch]_vars

\* ------------------------------------------------------------------------
\* SpecSample: a call of evaluate on up to MaxSample ground-truth records,
\* each with or without a contrast word and with or without a prediction,
\* beside a call on no records
\* ------------------------------------------------------------------------

\* the largest number of ground-truth records of SpecSample
MaxSample == 6

SampleIds == <<"s1", "s2", "s3", "s4", "s5", "s6", "s7", "s8">>

SampleKinds == {"mixed", "mixed_unpredicted", "plain"}

\* the k-th ground-truth record: `a but b` unless plain
SampleGt(k, kind) ==
    [id |-> SampleIds[k],
     sentence |-> IF kind = "plain" THEN SentAB ELSE SentAButB,
     sentiment_score |-> Zero,
     sentiment_label |-> "neutral",
     factor |-> Some("fx"),
     clauses |-> <<>>]

\* a prediction for the k-th record that quotes `a` and has no score
SamplePred(k) ==
    [id |-> SampleIds[k], sentiment_score |-> None,
     support_sentences |-> <<SentA>>, sentences |-> <<>>]

\* the positions of kinds that get a prediction, in order
RECURSIVE Predicted(_, _)
Predicted(kinds, k) ==
    IF k > Len(kinds) THEN <<>>
    ELSE IF kinds[k] = "mixed_unpredicted" THEN Predicted(kinds, k + 1)
         ELSE <<SamplePred(k)>> \o Predicted(kinds, k + 1)

SampleInput(kinds) ==
    [gt_records |-> [k \in 1..Len(kinds) |-> SampleGt(k, kinds[k])],
     pred_records |-> Predicted(kinds, 1),
     tolerance |-> DEFAULT_TOLERANCE,
     detailed |-> TRUE]

EmptyInput ==
    [gt_records |-> <<>>, pred_records |-> <<>>,
     tolerance |-> DEFAULT_TOLERANCE, detailed |-> TRUE]

InitSample ==
    /\ \E kinds \in SeqsUpTo(SampleKinds, MaxSample) :
         args = [c \in Callers |-> IF c = 1 THEN SampleInput(kinds) ELSE EmptyInput]
    /\ IdleCallers
    /\ matcher = NoMatcher
    /\ scorer = NoScorer

SpecSample == InitSample /\ [][Next]_vars

\* ------------------------------------------------------------------------
\* SpecRubric: the rubric functions called on a pair of scores and a pair
\* of tolerances
\* ------------------------------------------------------------------------

\* the scores are the multiples k/20 with |k| <= MaxScoreSteps
MaxScoreSteps == 25

PredScores == {R(k, 20) : k \in (-MaxScoreSteps)..MaxScoreSteps}

\* ground-truth scores: the ends and the shared boundaries of the rubric, and 0.0
GtScores ==
    {<<-1, 1>>, <<-3, 4>>, <<-7, 20>>, <<-1, 20>>, Zero, <<1, 20>>, <<7, 20>>, <<3, 4>>, One}

ToleranceValues == {Zero, DEFAULT_TOLERANCE, <<1, 4>>, Half, One, <<6, 5>>}

\* two tolerances, the first not above the second
TolerancePairs ==
    {ts \in ToleranceValues \X ToleranceValues : RLeq(ts[1], ts[2])}

InitRubric ==
    /\ \E g \in GtScores : \E p \in PredScores : \E ts \in TolerancePairs :
         scorer = [pc |-> "tolerance", gt_score |-> g, pred_score |-> p,
                   tolerances |-> ts, tolerance_scores |-> <<>>,
                   gt_label |-> None, pred_label |-> None, pred_range |-> None,
                   label_score |-> None, label_score_swapped |-> None]
    /\ args = [c \in Callers |-> EmptyInput]
    /\ IdleCallers
    /\ matcher = NoMatcher

\* a call of sentiment_match_with_tolerance with the next tolerance
ScoreWithTolerance ==
    /\ scorer.pc = "tolerance"
    /\ scorer' = [scorer EXCEPT
                    !.tolerance_scores =
                        Append(@, sentiment_match_with_tolerance(
                                      scorer.gt_score, scorer.pred_score,
                                      scorer.tolerances[Len(scorer.tolerance_scores) + 1])),
                    !.pc = IF Len(scorer.tolerance_scores) = 1 THEN "label" ELSE "tolerance"]
    /\ UNCHANGED <<args, pc, frame, result, by_factor, matcher>>

\* the calls of score_to_label of lines 116-117 of evaluate.py
ScoreToLabel ==
    /\ scorer.pc = "label"
    /\ scorer' = [scorer EXCEPT !.gt_label = Some(score_to_label(scorer.gt_score)),
                                !.pred_label = Some(score_to_label(scorer.pred_score)),
                                !.pc = "range"]
    /\ UNCHANGED <<args, pc, frame, result, by_factor, matcher>>

\* a call of label_to_score_range on the label of the predicted score
LabelToRange ==
    /\ scorer.pc = "range"
    /\ scorer' = [scorer EXCEPT !.pred_range = Some(label_to_score_range(scorer.pred_label[1])),
                                !.pc = "match"]
    /\ UNCHANGED <<args, pc, frame, result, by_factor, matcher>>

\* calls of label_match_score on the two labels, in both orders
LabelMatch ==
    /\ scorer.pc = "match"
    /\ scorer' = [scorer EXCEPT
                    !.label_score =
                        Some(label_match_score(scorer.gt_label[1], scorer.pred_label[1])),
                    !.label_score_swapped =
                        Some(label_match_score(scorer.pred_label[1], scorer.gt_label[1])),
                    !.pc = "done"]
    /\ UNCHANGED <<args, pc, frame, result, by_factor, matcher>>

NextRubric == ScoreWithTolerance \/ ScoreToLabel \/ LabelToRange \/ LabelMatch

SpecRubric == InitRubric /\ [][NextRubric]_vars

\* ------------------------------------------------------------------------
\* SpecAggregate: a call of aggregate_mixed_sentiment
\* ------------------------------------------------------------------------

\* the largest number of (text, score) pairs
MaxSub == 2

\* (text, score) pairs: texts of length 0, 1 and 3
SubPool == {<<>>, SentA, SentAB} \X {<<-3, 5>>, Zero, <<4, 5>>}

\* the two methods and a name that is neither
Methods == {"mean", "weighted_by_length", "median"}

InitAggregate ==
    /\ \E s \in SeqsUpTo(SubPool, MaxSub) : \E m \in Methods :
         scorer = [pc |-> "aggregate", sub_scores |-> s, method |-> m, outcome |-> None]
    /\ args = [c \in Callers |-> EmptyInput]
    /\ IdleCallers
    /\ matcher = NoMatcher

\* a call of aggregate_mixed_sentiment: lines 276-300
Aggregate ==
    /\ scorer.pc = "aggregate"
    /\ scorer' = [scorer EXCEPT
                    !.outcome = Some(aggregate_mixed_sentiment(scorer.sub_scores, scorer.method)),
                    !.pc = "done"]
    /\ UNCHANGED <<args, pc, frame, result, by_factor, matcher>>

NextAggregate == Aggregate

SpecAggregate == InitAggregate /\ [][NextAggregate]_vars

\* ------------------------------------------------------------------------
\* SpecFields: evaluate on one ground-truth record and a prediction with or
\* without each of its optional fields
\* ------------------------------------------------------------------------

\* the predictions for an id: sentiment_score absent, 0.0 or 0.8, and each of
\* support_sentences and sentences absent (or empty) or present
FieldPreds(id) ==
    { [id |-> id, sentiment_score |-> ps, support_sentences |-> sup, sentences |-> sen] :
        ps \in {None, Some(Zero), Some(<<4, 5>>)},
        sup \in {<<>>, <<SentAB>>},
        sen \in {<<>>, <<SentA>>} }

FieldInputs ==
    { [gt_records |-> <<g>>, pred_records |-> p, tolerance |-> t, detailed |-> TRUE] :
        g \in GtPool, p \in {<<>>} \cup {<<q>> : q \in UNION {FieldPreds(r.id) : r \in GtPool}},
        t \in Tolerances }

InitFields ==
    /\ \E a \in FieldInputs :
         args = [c \in Callers |-> IF c = 1 THEN a ELSE EmptyInput]
    /\ IdleCallers
    /\ matcher = NoMatcher
    /\ scorer = NoScorer

SpecFields == InitFields /\ [][Next]_vars

\* ------------------------------------------------------------------------
\* SpecMixed: detect_mixed_sentiment_indicators and
\* split_mixed_sentiment_sentence on one text
\* ------------------------------------------------------------------------

\* the largest number of words of a composed text
MaxTextWords == 2

TextWords ==
    { <<"a">>, <<"b">>, <<"b", "u", "t">>, <<"B", "U", "T">>, <<"y", "e", "t">>,
      <<"n", "e", "v", "e", "r", "t", "h", "e", "l", "e", "s", "s">>,
      <<"a", "n", "d">>, <<"A", "n", "d">>, <<"s", "o", "m", "e", "w", "h", "a", "t">> }

TextSeparators == { <<" ">>, <<"\t">>, <<" ", " ">>, <<",">>, <<";", " ">> }

\* words joined by separators
RECURSIVE Composed(_)
Composed(n) ==
    IF n = 0 THEN {<<>>}
    ELSE IF n = 1 THEN TextWords
    ELSE {t \o sep \o w : t \in Composed(n - 1), sep \in TextSeparators, w \in TextWords}

\* longer texts: a conjunction between two words, delimited by spaces, by
\* tabs and by a space shared with a second conjunction; a hedge phrase with
\* one and with two spaces between its words
LongTexts ==
    { <<"a", " ", "b", "u", "t", " ", "b">>,
      <<"a", "\t", "b", "u", "t", "\t", "b">>,
      <<"a", " ", "b", "u", "t", " ", "b", "u", "t", " ", "b">>,
      <<"a", " ", "n", "e", "v", "e", "r", "t", "h", "e", "l", "e", "s", "s", " ", "b">>,
      <<"a", " ", "a", "n", "d", " ", "b", ",", "b">>,
      <<"a", "\t", "a", "n", "d", "\t", "b">>,
      <<"t", "o", " ", "s", "o", "m", "e", " ", "e", "x", "t", "e", "n", "t">>,
      <<"t", "o", " ", " ", "s", "o", "m", "e", " ", "e", "x", "t", "e", "n", "t">>,
      <<" ", ",", " ">> }

Texts == UNION {Composed(n) : n \in 0..MaxTextWords} \cup LongTexts

InitMixed ==
    /\ \E text \in Texts :
         scorer = [pc |-> "detect", text |-> text, indicators |-> None,
                   normalized_indicators |-> None, parts |-> None]
    /\ args = [c \in Callers |-> EmptyInput]
    /\ IdleCallers
    /\ matcher = NoMatcher

\* calls of detect_mixed_sentiment_indicators on the text and on the
\* normalized text
Detect ==
    /\ scorer.pc = "detect"
    /\ scorer' = [scorer EXCEPT
                    !.indicators = Some(detect_mixed_sentiment_indicators(scorer.text)),
                    !.normalized_indicators =
                        Some(detect_mixed_sentiment_indicators(normalize_text(scorer.text))),
                    !.pc = "split"]
    /\ UNCHANGED <<args, pc, frame, result, by_factor, matcher>>

\* a call of split_mixed_sentiment_sentence on the text
SplitMixed ==
    /\ scorer.pc = "split"
    /\ scorer' = [scorer EXCEPT !.parts = Some(split_mixed_sentiment_sentence(scorer.text)),
                                !.pc = "done"]
    /\ UNCHANGED <<args, pc, frame, result, by_factor, matcher>>

NextMixed == Detect \/ SplitMixed

SpecMixed == InitMixed /\ [][NextMixed]_vars

\* ------------------------------------------------------------------------
\* Properties of evaluate (Spec)
\* ------------------------------------------------------------------------

\* the call of c has ended, with a result or with the exception
Finished(c) == pc[c] \in {"done", "raised"}

\* some record of c's pred_records has the id of c's k-th ground-truth record
HasPrediction(c, k) ==
    \E j \in 1..Len(args[c].pred_records) :
        args[c].pred_records[j].id = args[c].gt_records[k].id

\* the k-th entry of a list, if it has one
Entry(xs, k) == IF k <= Len(xs) THEN Some(xs[k]) ELSE None

\* the second caller got the gt_records and the tolerance of the first
SameGtAndTolerance ==
    /\ args[2].gt_records = args[1].gt_records
    /\ args[2].tolerance = args[1].tolerance
    /\ args[2].detailed = args[1].detailed

\* C1: every processed ground-truth record without a prediction has put 0.0
\* into each of the four accumulators and is flagged missing_prediction; the
\* pass that raised was not the pass of such a record; and the result counts
\* every ground-truth record in items.
C1_MissingPredictionIsFullMiss ==
    \A c \in Callers :
        /\ \A k \in 1..frame[c].items :
              ~HasPrediction(c, k) =>
                  /\ Entry(frame[c].acc.id_scores, k) = Some(Zero)
                  /\ Entry(frame[c].acc.sent_basic_scores, k) = Some(Zero)
                  /\ Entry(frame[c].acc.sent_tolerance_scores, k) = Some(Zero)
                  /\ Entry(frame[c].acc.sent_label_scores, k) = Some(Zero)
                  /\ k <= Len(frame[c].acc.per_item_details)
                  /\ frame[c].acc.per_item_details[k].missing_prediction
        /\ pc[c] = "raised" => HasPrediction(c, frame[c].items)
        /\ pc[c] = "done" => result[c][1].items = Len(args[c].gt_records)

\* a call has returned for two records, the first with a prediction that
\* scored above 0.0 and the second without a prediction
C1_Witness ==
    \E c \in Callers :
        /\ pc[c] = "done"
        /\ Len(args[c].gt_records) = 2
        /\ HasPrediction(c, 1)
        /\ ~HasPrediction(c, 2)
        /\ args[c].pred_records # <<>>
        /\ ~IsZero(result[c][1].identification)

\* the per-item scores of one kind, read from the per-item details
Column(details, kind) ==
    [k \in 1..Len(details) |->
        CASE kind = "identification" -> details[k].identification_score
          [] kind = "sentiment_basic" -> details[k].sentiment_basic
          [] kind = "sentiment_tolerance" -> details[k].sentiment_tolerance
          [] kind = "sentiment_label" -> details[k].sentiment_label]

\* sum of the per-item scores divided by the number n of ground-truth records
MeanOverGt(details, kind, n) == RDiv(RSum(Column(details, kind)), <<n, 1>>)

\* C2: a returned result has items = len(gt_records); each of the four
\* averages is the sum of the per-item scores divided by len(gt_records),
\* rounded to 4 places; with no ground-truth record every figure is 0.0.
C2_MeansOverGroundTruth ==
    \A c \in Callers :
        pc[c] = "done" =>
            /\ result[c][1].items = Len(args[c].gt_records)
            /\ Len(frame[c].acc.per_item_details) = Len(args[c].gt_records)
            /\ IF args[c].gt_records = <<>>
               THEN /\ result[c][1].identification = Zero
                    /\ result[c][1].sentiment_basic = Zero
                    /\ result[c][1].sentiment_tolerance = Zero
                    /\ result[c][1].sentiment_label = Zero
                    /\ result[c][1].sentiment = Zero
                    /\ result[c][1].composite = Zero
               ELSE /\ result[c][1].identification =
                          Round4(MeanOverGt(frame[c].acc.per_item_details, "identification",
                                            Len(args[c].gt_records)))
                    /\ result[c][1].sentiment_basic =
                          Round4(MeanOverGt(frame[c].acc.per_item_details, "sentiment_basic",
                                            Len(args[c].gt_records)))
                    /\ result[c][1].sentiment_tolerance =
                          Round4(MeanOverGt(frame[c].acc.per_item_details, "sentiment_tolerance",
                                            Len(args[c].gt_records)))
                    /\ result[c][1].sentiment_label =
                          Round4(MeanOverGt(frame[c].acc.per_item_details, "sentiment_label",
                                            Len(args[c].gt_records)))

\* a call has returned for two ground-truth records and one prediction, with
\* an identification of 0.5: one hit, divided by two
C2_Witness ==
    \E c \in Callers :
        /\ pc[c] = "done"
        /\ Len(args[c].gt_records) = 2
        /\ Len(args[c].pred_records) = 1
        /\ result[c][1].identification = Half

\* 0.5*T + 0.3*B + 0.2*L, the weights written out
WeightedSentiment(T, B, L) ==
    RAdd(RAdd(RMul(<<5, 10>>, T), RMul(<<3, 10>>, B)), RMul(<<2, 10>>, L))

\* 0.4*I + 0.6*S
WeightedComposite(I, S) == RAdd(RMul(<<4, 10>>, I), RMul(<<6, 10>>, S))

\* the unrounded mean of an accumulator of caller c
Unrounded(c, scores) ==
    IF frame[c].items = 0 THEN Zero ELSE RDiv(RSum(scores), <<frame[c].items, 1>>)

UnroundedSentiment(c) ==
    WeightedSentiment(Unrounded(c, frame[c].acc.sent_tolerance_scores),
                      Unrounded(c, frame[c].acc.sent_basic_scores),
                      Unrounded(c, frame[c].acc.sent_label_scores))

\* the sentiment figure had the weights been applied to the rounded averages
SentimentOfRounded(c) ==
    Round4(WeightedSentiment(Round4(Unrounded(c, frame[c].acc.sent_tolerance_scores)),
                             Round4(Unrounded(c, frame[c].acc.sent_basic_scores)),
                             Round4(Unrounded(c, frame[c].acc.sent_label_scores))))

\* C3: in a returned result, sentiment is 0.5*T + 0.3*B + 0.2*L and composite
\* is 0.4*I + 0.6*sentiment computed from the unrounded means, and each
\* figure is rounded to 4 places only when it is reported.
C3_WeightsOnUnroundedMeans ==
    \A c \in Callers :
        pc[c] = "done" =>
            /\ result[c][1].sentiment = Round4(UnroundedSentiment(c))
            /\ result[c][1].composite =
                  Round4(WeightedComposite(Unrounded(c, frame[c].acc.id_scores),
                                           UnroundedSentiment(c)))
            /\ result[c][1].identification = Round4(Unrounded(c, frame[c].acc.id_scores))
            /\ result[c][1].sentiment_basic =
                  Round4(Unrounded(c, frame[c].acc.sent_basic_scores))
            /\ result[c][1].sentiment_tolerance =
                  Round4(Unrounded(c, frame[c].acc.sent_tolerance_scores))
            /\ result[c][1].sentiment_label =
                  Round4(Unrounded(c, frame[c].acc.sent_label_scores))

\* a call has returned a sentiment that differs from the one the rounded
\* averages would give
C3_Witness ==
    \E c \in Callers :
        /\ pc[c] = "done"
        /\ result[c][1].sentiment # SentimentOfRounded(c)

\* every sub-score of every per-item detail is in [0,1]
DetailsInUnit(details) ==
    \A k \in 1..Len(details) :
        /\ InUnit(details[k].identification_score)
        /\ InUnit(details[k].sentiment_basic)
        /\ InUnit(details[k].sentiment_tolerance)
        /\ InUnit(details[k].sentiment_label)

\* C4: no call of evaluate ends in an arithmetic error, and every figure and
\* every per-item sub-score of a returned result lies in [0,1].
C4_ScoresInUnitIntervalNoError ==
    \A c \in Callers :
        /\ pc[c] # "raised"
        /\ pc[c] = "done" =>
              /\ InUnit(result[c][1].identification)
              /\ InUnit(result[c][1].sentiment_basic)
              /\ InUnit(result[c][1].sentiment_tolerance)
              /\ InUnit(result[c][1].sentiment_label)
              /\ InUnit(result[c][1].sentiment)
              /\ InUnit(result[c][1].composite)
              /\ DetailsInUnit(result[c][1].per_item[1])

\* C5: when the second call gets the pred_records of the first without the
\* records whose id is no ground-truth id, both calls end the same way and
\* return results equal in every field.
C5_UnmatchedPredictionsIgnored ==
    ( /\ SameGtAndTolerance
      /\ args[2].pred_records = DropUnmatched(args[1].pred_records, args[1].gt_records)
      /\ Finished(1)
      /\ Finished(2) )
    => /\ pc[1] = pc[2]
       /\ result[1] = result[2]

\* both calls have returned, the first from pred_records with a record of
\* an unknown id and a record that was scored
C5_Witness ==
    /\ SameGtAndTolerance
    /\ args[2].pred_records = DropUnmatched(args[1].pred_records, args[1].gt_records)
    /\ args[2].pred_records # args[1].pred_records
    /\ args[2].pred_records # <<>>
    /\ pc[1] = "done"
    /\ pc[2] = "done"
    /\ Len(args[1].gt_records) = 2

\* the last record of preds with the given id
LastWithId(preds, id) ==
    preds[CHOOSE k \in 1..Len(preds) :
            /\ preds[k].id = id
            /\ \A j \in (k + 1)..Len(preds) : preds[j].id # id]

\* C6: the lookup of a call holds, for every ground-truth id that has
\* predictions, the last record of pred_records with that id, and that
\* record's score is the one in the item's detail; a call on pred_records
\* without the earlier records of each id ends the same way with an equal
\* result.
C6_LastDuplicateWins ==
    /\ \A c \in Callers :
          pc[c] \in {"loop", "done", "raised"} =>
              \A k \in 1..Len(args[c].gt_records) :
                  HasPrediction(c, k) =>
                      /\ Lookup(frame[c].pred_by_id, args[c].gt_records[k].id)
                            = Some(LastWithId(args[c].pred_records, args[c].gt_records[k].id))
                      /\ k <= Len(frame[c].acc.per_item_details) =>
                            frame[c].acc.per_item_details[k].pred_score =
                                LastWithId(args[c].pred_records,
                                           args[c].gt_records[k].id).sentiment_score
    /\ ( /\ SameGtAndTolerance
         /\ args[2].pred_records = DropShadowed(args[1].pred_records)
         /\ Finished(1)
         /\ Finished(2) )
       => /\ pc[1] = pc[2]
          /\ result[1] = result[2]

\* both calls have returned, the first from two different records with the
\* id of a ground-truth record, the second from the later of the two alone
C6_Witness ==
    /\ SameGtAndTolerance
    /\ Len(args[1].pred_records) = 2
    /\ args[1].pred_records[1].id = args[1].pred_records[2].id
    /\ args[1].pred_records[1] # args[1].pred_records[2]
    /\ args[2].pred_records = <<args[1].pred_records[2]>>
    /\ args[1].gt_records # <<>>
    /\ HasPrediction(1, 1)
    /\ pc[1] = "done"
    /\ pc[2] = "done"

\* C8: no step of a call changes any caller's gt_records, pred_records or
\* other arguments, and two calls with the same arguments that have both
\* ended, however their steps were interleaved, ended the same way with equal
\* results.
C8_EvaluateIsPure ==
    /\ [][args' = args]_vars
    /\ []((args[1] = args[2] /\ Finished(1) /\ Finished(2))
             => (pc[1] = pc[2] /\ result[1] = result[2]))

\* two calls with the same arguments have returned a result for two
\* ground-truth records, with a composite above 0.0
C8_Witness ==
    /\ args[1] = args[2]
    /\ pc[1] = "done"
    /\ pc[2] = "done"
    /\ Len(args[1].gt_records) = 2
    /\ ~IsZero(result[1][1].composite)

\* ------------------------------------------------------------------------
\* Properties of evaluate_by_factor (SpecByFactor)
\* ------------------------------------------------------------------------

\* the number of times x occurs in xs
Count(xs, x) == Cardinality({k \in 1..Len(xs) : xs[k] = x})

\* ys is a reordering of xs
IsReordering(xs, ys) ==
    /\ Len(xs) = Len(ys)
    /\ \A k \in 1..Len(xs) : Count(xs, xs[k]) = Count(ys, xs[k])

\* the records of preds with the given id, in their order
WithId(preds, id) ==
    LET Same(p) == p.id = id
    IN  SelectSeq(preds, Same)

\* the records that share an id are in the same relative order in xs and ys
SameIdOrderKept(xs, ys) ==
    \A k \in 1..Len(xs) : WithId(xs, xs[k].id) = WithId(ys, xs[k].id)

\* the figures of a result that the order of the inputs is said not to change
Figures(r) ==
    <<r.items, r.identification, r.sentiment_basic, r.sentiment_tolerance,
      r.sentiment_label, r.sentiment, r.composite, r.mixed_sentiment_count>>

\* the overall figures, and the by_factor keys in order with their figures
ByFactorFigures(v) ==
    <<Figures(v.overall),
      [k \in 1..Len(v.by_factor) |-> <<v.by_factor[k].factor, Figures(v.by_factor[k].result)>>]>>

\* the second caller got the records of the first in some order
ReorderedInputs ==
    /\ IsReordering(args[1].gt_records, args[2].gt_records)
    /\ IsReordering(args[1].pred_records, args[2].pred_records)
    /\ args[2].tolerance = args[1].tolerance

\* C7 (as stated): for any reordering of gt_records and any reordering of
\* pred_records the overall figures, the by_factor keys, their order and the
\* per-group figures are the same.
C7_AnyReorderingSameFigures ==
    ( /\ ReorderedInputs
      /\ pc[1] = "done_by_factor"
      /\ pc[2] = "done_by_factor" )
    => ByFactorFigures(by_factor[1][1]) = ByFactorFigures(by_factor[2][1])

\* C7 (amended): for any reordering of gt_records and any reordering of
\* pred_records that keeps the relative order of the records sharing an id,
\* both calls end the same way, and the overall figures, the by_factor keys,
\* their order and the per-group figures are the same (the sums being exact).
C7_ReorderingKeepingDuplicateOrder ==
    ( /\ ReorderedInputs
      /\ SameIdOrderKept(args[1].pred_records, args[2].pred_records)
      /\ pc[1] # "idle"
      /\ pc[2] # "idle" )
    => /\ pc[1] = pc[2]
       /\ pc[1] = "done_by_factor" =>
             ByFactorFigures(by_factor[1][1]) = ByFactorFigures(by_factor[2][1])

\* both calls have returned two factor groups, the second from the
\* ground-truth records and the predictions of the first in another order
C7_Witness ==
    /\ ReorderedInputs
    /\ SameIdOrderKept(args[1].pred_records, args[2].pred_records)
    /\ args[2].gt_records # args[1].gt_records
    /\ args[2].pred_records # args[1].pred_records
    /\ pc[1] = "done_by_factor"
    /\ pc[2] = "done_by_factor"
    /\ Len(by_factor[1][1].by_factor) = 2
    /\ ~IsZero(by_factor[1][1].overall.composite)

\* ------------------------------------------------------------------------
\* Properties of sentence_match_score (SpecMatch)
\* ------------------------------------------------------------------------

\* s and t are equal up to letter case and whitespace
SameUpToCaseAndSpace(s, t) == Split(Lower(s)) = Split(Lower(t))

\* the whitespace-separated tokens of a sentence after lowercasing
TokenSet(s) == Range(Split(Lower(s)))

\* the candidate of a call with a single candidate, lowercased, stripped and
\* with single spaces
SingleCandidate == Join(Split(Lower(matcher.candidate_sentences[1])))

\* C9: a call with the single candidate s', where s' equals the sentence s up
\* to letter case and whitespace, returns exactly 1.0.
C9_VerbatimMatchScoresOne ==
    ( /\ matcher.pc = "done"
      /\ Len(matcher.candidate_sentences) = 1
      /\ SameUpToCaseAndSpace(matcher.gt_sentence, matcher.candidate_sentences[1]) )
    => matcher.value = Some(One)

\* a call has returned for a sentence with a comma and the word `and` and
\* for the same sentence in upper case as the candidate
C9_Witness ==
    /\ matcher.pc = "done"
    /\ matcher.gt_sentence = SentListAnd
    /\ matcher.candidate_sentences = <<Upper(SentListAnd)>>
    /\ Len(matcher.scores) = 3

\* C10 (as stated): when the token sets of s and t are disjoint and neither
\* normalized sentence is a substring of the other, the score of s against
\* [t] is below 0.5.
C10_DisjointSentencesBelowHalf ==
    ( /\ matcher.pc = "done"
      /\ Len(matcher.candidate_sentences) = 1
      /\ TokenSet(matcher.gt_sentence) \cap TokenSet(matcher.candidate_sentences[1]) = {}
      /\ ~IsSubstring(Join(Split(Lower(matcher.gt_sentence))), SingleCandidate)
      /\ ~IsSubstring(SingleCandidate, Join(Split(Lower(matcher.gt_sentence)))) )
    => RLt(matcher.value[1], Half)

\* a clause that shares no token with the candidate and is in no substring
\* relation with it
Unrelated(clause, cand) ==
    /\ Range(Split(clause)) \cap Range(Split(cand)) = {}
    /\ ~IsSubstring(clause, cand)
    /\ ~IsSubstring(cand, clause)

\* C10 (amended): when every clause of s shares no token with the normalized
\* t and is in no substring relation with it, the score of s against [t] is
\* 0.0, and so below 0.5.
C10_UnrelatedClausesScoreZero ==
    ( /\ matcher.pc = "done"
      /\ Len(matcher.candidate_sentences) = 1
      /\ \A k \in 1..Len(matcher.gt_clauses) :
            Unrelated(matcher.gt_clauses[k], SingleCandidate) )
    => /\ matcher.value = Some(Zero)
       /\ RLt(matcher.value[1], Half)

\* a call has returned for a sentence of two clauses and a candidate
\* unrelated to both
C10_Witness ==
    /\ matcher.pc = "done"
    /\ Len(matcher.candidate_sentences) = 1
    /\ Len(matcher.gt_clauses) = 2
    /\ \A k \in 1..Len(matcher.gt_clauses) :
          Unrelated(matcher.gt_clauses[k], SingleCandidate)

\* ------------------------------------------------------------------------
\* Properties of the rubric functions (SpecRubric)
\* ------------------------------------------------------------------------

\* x is a score in [-1,1]
InScoreRange(x) == RLeq(<<-1, 1>>, x) /\ RLeq(x, One)

\* |gt - pred| of the scored pair
ScoredError == RAbs(RSub(scorer.gt_score, scorer.pred_score))

\* the three bands for one call: its error, its tolerance and what it returned
InBands(error, tolerance, out) ==
    /\ ~out.raised
    /\ RLeq(error, tolerance) => out.value = One
    /\ (RLt(tolerance, error) /\ RLeq(error, RMul(Two, tolerance))) =>
          /\ out.value = RSub(One, RDiv(RSub(error, tolerance), RMul(Two, tolerance)))
          /\ RLeq(Half, out.value)
          /\ RLt(out.value, One)
    /\ RLt(RMul(Two, tolerance), error) =>
          /\ RLeq(Zero, out.value)
          /\ RLt(out.value, Half)
          /\ error = Two => out.value = Zero

C12_MonotoneInTolerance ==
    ( /\ InScoreRange(scorer.gt_score)
      /\ InScoreRange(scorer.pred_score)
      /\ Len(scorer.tolerance_scores) = 2
      /\ RLeq(Zero, scorer.tolerances[1])
      /\ RLeq(scorer.tolerances[1], scorer.tolerances[2]) )
    => /\ ~scorer.tolerance_scores[1].raised
       /\ ~scorer.tolerance_scores[2].raised
       /\ RLeq(scorer.tolerance_scores[1].value, scorer.tolerance_scores[2].value)

\* an error above 1.0 has been scored with two tolerances that both leave it
\* in the last band, and the larger tolerance has given the higher score
C12_Witness ==
    /\ InScoreRange(scorer.gt_score)
    /\ InScoreRange(scorer.pred_score)
    /\ Len(scorer.tolerance_scores) = 2
    /\ RLt(One, ScoredError)
    /\ RLt(RMul(Two, scorer.tolerances[2]), ScoredError)
    /\ RLt(scorer.tolerances[1], scorer.tolerances[2])
    /\ RLt(scorer.tolerance_scores[1].value, scorer.tolerance_scores[2].value)

\* the position of a label in the order strongly_negative .. strongly_positive
LabelRank(label) ==
    CASE label = "strongly_negative" -> 0
      [] label = "negative" -> 1
      [] label = "slightly_negative" -> 2
      [] label = "neutral" -> 3
      [] label = "slightly_positive" -> 4
      [] label = "positive" -> 5
      [] label = "strongly_positive" -> 6

\* max(0, 1 - d/6) for the distance d of two labels
ExpectedLabelScore(a, b) ==
    RMax(Zero, RSub(One, R(Abs(LabelRank(a) - LabelRank(b)), 6)))

FirstRangeLabel(score) ==
    IF RLeq(score, <<-3, 4>>) THEN "strongly_negative"
    ELSE IF RLeq(score, <<-7, 20>>) THEN "negative"
    ELSE IF RLeq(score, <<-1, 20>>) THEN "slightly_negative"
    ELSE IF RLeq(score, <<1, 20>>) THEN "neutral"
    ELSE IF RLeq(score, <<7, 20>>) THEN "slightly_positive"
    ELSE IF RLeq(score, <<3, 4>>) THEN "positive"
    ELSE "strongly_positive"

RubricCoversScale ==
    /\ Len(SENTIMENT_RUBRIC) = 7
    /\ \A k \in 1..Len(SENTIMENT_RUBRIC) :
          /\ LabelRank(SENTIMENT_RUBRIC[k].label) = k - 1
          /\ RLt(SENTIMENT_RUBRIC[k].min_score, SENTIMENT_RUBRIC[k].max_score)
          /\ k < Len(SENTIMENT_RUBRIC) =>
                SENTIMENT_RUBRIC[k].max_score = SENTIMENT_RUBRIC[k + 1].min_score
    /\ SENTIMENT_RUBRIC[1].min_score = <<-1, 1>>
    /\ SENTIMENT_RUBRIC[Len(SENTIMENT_RUBRIC)].max_score = One

\* C15: the rubric is seven closed ranges in label order that cover [-1,1]
\* without gaps; every clamped score is in some range, so the closest-center
\* fallback is not reached; and for a score s in [-1,1] the range of the
\* label of s contains s.
C15_RubricCoversWithoutGaps ==
    /\ RubricCoversScale
    /\ ContainingRanges(Clamp(scorer.gt_score)) # {}
    /\ ContainingRanges(Clamp(scorer.pred_score)) # {}
    /\ (scorer.pc \in {"match", "done"} /\ InScoreRange(scorer.pred_score)) =>
          /\ RLeq(scorer.pred_range[1][1], scorer.pred_score)
          /\ RLeq(scorer.pred_score, scorer.pred_range[1][2])

\* the range of the label of the boundary score -0.05 has been looked up
\* and is [-0.35, -0.05]
C15_Witness ==
    /\ scorer.pc = "done"
    /\ scorer.pred_score = <<-1, 20>>
    /\ scorer.pred_range = Some(<<(<<-7, 20>>), (<<-1, 20>>)>>)

\* ------------------------------------------------------------------------
\* Properties of aggregate_mixed_sentiment (SpecAggregate)
\* ------------------------------------------------------------------------

\* the scores, and the scores times the lengths of their texts
ScoresOf(sub_scores) == [k \in 1..Len(sub_scores) |-> sub_scores[k][2]]
LengthsOf(sub_scores) == [k \in 1..Len(sub_scores) |-> <<Len(sub_scores[k][1]), 1>>]
WeightedScoresOf(sub_scores) ==
    [k \in 1..Len(sub_scores) |-> RMul(<<Len(sub_scores[k][1]), 1>>, sub_scores[k][2])]

\* C16: aggregate_mixed_sentiment returns 0.0 for no sub-scores whatever the
\* method; otherwise "mean" returns the arithmetic mean of the scores and
\* "weighted_by_length" returns sum(len(text)*score)/sum(len(text)), or 0.0
\* when the total length is 0.
C16_AggregateByMethod ==
    scorer.pc = "done" =>
        /\ scorer.sub_scores = <<>> =>
              scorer.outcome = Some([raised |-> FALSE, value |-> Zero])
        /\ (scorer.sub_scores # <<>> /\ scorer.method = "mean") =>
              scorer.outcome =
                  Some([raised |-> FALSE,
                        value |-> RDiv(RSum(ScoresOf(scorer.sub_scores)),
                                       <<Len(scorer.sub_scores), 1>>)])
        /\ (scorer.sub_scores # <<>> /\ scorer.method = "weighted_by_length") =>
              scorer.outcome =
                  Some([raised |-> FALSE,
                        value |-> IF IsZero(RSum(LengthsOf(scorer.sub_scores))) THEN Zero
                                  ELSE RDiv(RSum(WeightedScoresOf(scorer.sub_scores)),
                                            RSum(LengthsOf(scorer.sub_scores)))])

\* two sub-scores with texts of different lengths have been aggregated by
\* length to a value that is not their mean
C16_Witness ==
    /\ scorer.pc = "done"
    /\ scorer.method = "weighted_by_length"
    /\ Len(scorer.sub_scores) = 2
    /\ Len(scorer.sub_scores[1][1]) # Len(scorer.sub_scores[2][1])
    /\ ~scorer.outcome[1].raised
    /\ scorer.outcome[1].value #
          RDiv(RSum(ScoresOf(scorer.sub_scores)), <<Len(scorer.sub_scores), 1>>)

\* C17 (as stated): a call with a method other than "mean" and
\* "weighted_by_length" raises, for every sub_scores.
C17_UnknownMethodAlwaysRaises ==
    (scorer.pc = "done" /\ scorer.method \notin {"mean", "weighted_by_length"}) =>
        scorer.outcome[1].raised

\* C17 (amended): a call with a method other than "mean" and
\* "weighted_by_length" and with at least one sub-score raises and returns
\* no value.
C17_UnknownMethodRaisesOnNonEmpty ==
    ( /\ scorer.pc = "done"
      /\ scorer.method \notin {"mean", "weighted_by_length"}
      /\ scorer.sub_scores # <<>> )
    => scorer.outcome[1].raised

\* a call with the method "median" and two sub-scores has raised
C17_Witness ==
    /\ scorer.pc = "done"
    /\ scorer.method = "median"
    /\ Len(scorer.sub_scores) = 2
    /\ scorer.outcome[1].raised

\* ------------------------------------------------------------------------
\* Properties of the factor groups (SpecByFactor)
\* ------------------------------------------------------------------------

\* every ground-truth record of caller c carries a factor
AllWithFactor(c) ==
    \A k \in 1..Len(args[c].gt_records) : args[c].gt_records[k].factor # None

\* the number of ground-truth records of c with the given factor
WithFactor(c, name) ==
    Cardinality({k \in 1..Len(args[c].gt_records) : args[c].gt_records[k].factor = Some(name)})

\* the place of a factor name in lexicographic order
KeyRank(name) ==
    CASE name = "fx" -> 1
      [] name = "interest_rates" -> 2
      [] name = "unknown" -> 3

\* the items counts of the groups
GroupItems(groups) == [k \in 1..Len(groups) |-> groups[k].result.items]

RECURSIVE SumOf(_)
SumOf(ns) == IF ns = <<>> THEN 0 ELSE Head(ns) + SumOf(Tail(ns))

\* C18: when every ground-truth record carries a factor, by_factor has one
\* key per distinct factor, in lexicographic order, each group counts the
\* records with its factor, and the groups' items sum to overall.items.
C18_GroupsPartitionByFactor ==
    \A c \in Callers :
        (pc[c] = "done_by_factor" /\ AllWithFactor(c)) =>
            /\ {by_factor[c][1].by_factor[k].factor : k \in 1..Len(by_factor[c][1].by_factor)}
                  = {args[c].gt_records[k].factor[1] : k \in 1..Len(args[c].gt_records)}
            /\ \A i, j \in 1..Len(by_factor[c][1].by_factor) :
                  i < j => KeyRank(by_factor[c][1].by_factor[i].factor)
                              < KeyRank(by_factor[c][1].by_factor[j].factor)
            /\ \A k \in 1..Len(by_factor[c][1].by_factor) :
                  by_factor[c][1].by_factor[k].result.items
                      = WithFactor(c, by_factor[c][1].by_factor[k].factor)
            /\ SumOf(GroupItems(by_factor[c][1].by_factor)) = by_factor[c][1].overall.items
            /\ by_factor[c][1].overall.items = Len(args[c].gt_records)

\* a call has returned one group of two records that share the factor fx
C18_Witness ==
    \E c \in Callers :
        /\ pc[c] = "done_by_factor"
        /\ AllWithFactor(c)
        /\ Len(args[c].gt_records) = 2
        /\ Len(by_factor[c][1].by_factor) = 1
        /\ by_factor[c][1].by_factor[1].factor = "fx"
        /\ by_factor[c][1].by_factor[1].result.items = 2

\* ------------------------------------------------------------------------
\* Properties of the mixed-sentiment sample (SpecSample)
\* ------------------------------------------------------------------------

\* the smaller of two numbers
Min(a, b) == IF a < b THEN a ELSE b

\* the ids of the ground-truth records of c that are among the detected
\* items, in input order
DetectedInInputOrder(c) ==
    LET Detected(gt) ==
            \E k \in 1..Len(frame[c].acc.mixed_items) : frame[c].acc.mixed_items[k].id = gt.id
        Hits == SelectSeq(args[c].gt_records, Detected)
    IN  [k \in 1..Len(Hits) |-> Hits[k].id]

\* C19: the sample of a returned result holds the first min(5, n) of the n
\* detected items in ground-truth input order; mixed_sentiment_count and the
\* count of mixed_sentiment_analysis are n; and mixed_sentiment_analysis is
\* present exactly when n > 0.
C19_SampleCappedAtFive ==
    \A c \in Callers :
        pc[c] = "done" =>
            /\ result[c][1].mixed_sentiment_count = Len(frame[c].acc.mixed_items)
            /\ [k \in 1..Len(frame[c].acc.mixed_items) |-> frame[c].acc.mixed_items[k].id]
                  = DetectedInInputOrder(c)
            /\ (result[c][1].mixed_sentiment_analysis # None)
                  <=> (result[c][1].mixed_sentiment_count > 0)
            /\ result[c][1].mixed_sentiment_analysis # None =>
                  /\ result[c][1].mixed_sentiment_analysis[1].count
                        = Len(frame[c].acc.mixed_items)
                  /\ Len(result[c][1].mixed_sentiment_analysis[1].items) <= 5
                  /\ result[c][1].mixed_sentiment_analysis[1].items
                        = SubSeq(frame[c].acc.mixed_items, 1,
                                 Min(5, Len(frame[c].acc.mixed_items)))

\* a call has returned with six detected items and a sample of five
C19_Witness ==
    \E c \in Callers :
        /\ pc[c] = "done"
        /\ result[c][1].mixed_sentiment_count = 6
        /\ result[c][1].mixed_sentiment_analysis[1].count = 6
        /\ Len(result[c][1].mixed_sentiment_analysis[1].items) = 5

\* the number of ground-truth records of c whose sentence has an indicator
WithIndicators(c) ==
    Cardinality({k \in 1..Len(args[c].gt_records) :
                    detect_mixed_sentiment_indicators(args[c].gt_records[k].sentence) # <<>>})

\* C20: mixed_sentiment_count of a returned result is the number of
\* ground-truth records whose sentence yields an indicator, with or without
\* a prediction for the record.
C20_MixedCountIgnoresPredictions ==
    \A c \in Callers :
        pc[c] = "done" => result[c][1].mixed_sentiment_count = WithIndicators(c)

\* ------------------------------------------------------------------------
\* Properties of the optional fields of a prediction (SpecFields)
\* ------------------------------------------------------------------------

\* the first ground-truth record of c has been processed and the only
\* prediction of c is a prediction for it
ScoredWithPrediction(c) ==
    /\ frame[c].items >= 1
    /\ pc[c] \in {"loop", "done"}
    /\ Len(args[c].pred_records) = 1
    /\ args[c].pred_records[1].id = args[c].gt_records[1].id

\* C21: the identification score of an item is the match score against the
\* prediction's support_sentences when these are present and non-empty,
\* otherwise against its `sentences`; with neither, the score is 0.0.
C21_SupportSentencesThenSentences ==
    \A c \in Callers :
        ScoredWithPrediction(c) =>
            /\ args[c].pred_records[1].support_sentences # <<>> =>
                  frame[c].acc.id_scores[1] =
                      sentence_match_score(args[c].gt_records[1].sentence,
                                           args[c].pred_records[1].support_sentences)
            /\ args[c].pred_records[1].support_sentences = <<>> =>
                  frame[c].acc.id_scores[1] =
                      sentence_match_score(args[c].gt_records[1].sentence,
                                           args[c].pred_records[1].sentences)
            /\ ( /\ args[c].pred_records[1].support_sentences = <<>>
                 /\ args[c].pred_records[1].sentences = <<>> ) =>
                  frame[c].acc.id_scores[1] = Zero

\* a call has returned identification 1.0 for a prediction whose
\* support_sentences quote the sentence and whose `sentences` quote a part
C21_Witness ==
    \E c \in Callers :
        /\ pc[c] = "done"
        /\ ScoredWithPrediction(c)
        /\ args[c].gt_records[1].sentence = SentAB
        /\ args[c].pred_records[1].support_sentences = <<SentAB>>
        /\ args[c].pred_records[1].sentences = <<SentA>>
        /\ result[c][1].identification = One

\* the sentiment_score of the only prediction of c
OnlyScore(c) == args[c].pred_records[1].sentiment_score

\* C22: for an item with a prediction the three sentiment scores are 0.0 when
\* the prediction's sentiment_score is absent, the identification score
\* being computed all the same; a numeric sentiment_score, 0.0 included, is
\* scored with the basic, the tolerance and the label score.
C22_AbsentScoreZeroesSentiment ==
    \A c \in Callers :
        ScoredWithPrediction(c) =>
            /\ OnlyScore(c) = None =>
                  /\ frame[c].acc.sent_basic_scores[1] = Zero
                  /\ frame[c].acc.sent_tolerance_scores[1] = Zero
                  /\ frame[c].acc.sent_label_scores[1] = Zero
                  /\ frame[c].acc.per_item_details[1].pred_score = None
                  /\ frame[c].acc.id_scores[1] =
                        sentence_match_score(
                            args[c].gt_records[1].sentence,
                            IF args[c].pred_records[1].support_sentences # <<>>
                            THEN args[c].pred_records[1].support_sentences
                            ELSE args[c].pred_records[1].sentences)
            /\ OnlyScore(c) # None =>
                  /\ frame[c].acc.sent_basic_scores[1] =
                        sentiment_score_match(args[c].gt_records[1].sentiment_score,
                                              OnlyScore(c)[1])
                  /\ frame[c].acc.sent_tolerance_scores[1] =
                        sentiment_match_with_tolerance(
                            args[c].gt_records[1].sentiment_score,
                            OnlyScore(c)[1], args[c].tolerance).value
                  /\ frame[c].acc.sent_label_scores[1] =
                        label_match_score(
                            score_to_label(args[c].gt_records[1].sentiment_score),
                            score_to_label(OnlyScore(c)[1]))

\* a call has returned for a prediction with the score 0.0 and has scored
\* it 1.0 against the ground-truth score 0.0
C22_Witness ==
    \E c \in Callers :
        /\ pc[c] = "done"
        /\ ScoredWithPrediction(c)
        /\ OnlyScore(c) = Some(Zero)
        /\ args[c].gt_records[1].sentiment_score = Zero
        /\ result[c][1].sentiment_basic = One
        /\ result[c][1].sentiment_label = One

\* ------------------------------------------------------------------------
\* Properties of the mixed-sentiment detector and splitter (SpecMixed)
\* ------------------------------------------------------------------------

\* C23: detect_mixed_sentiment_indicators returns for every text what it
\* returns for the normalized text, so a conjunction delimited by tabs or by
\* several spaces is reported as with single spaces.
C23_DetectOnNormalizedText ==
    scorer.pc \in {"split", "done"} => scorer.indicators = scorer.normalized_indicators

\* C24: split_mixed_sentiment_sentence returns the non-empty list of pieces
\* of a split at every comma, semicolon and whitespace-delimited contrast
\* conjunction of the detector's list, in any letter case, each piece split
\* again on the word `and`.
C24_SplitOnDetectorConjunctions ==
    scorer.pc = "done" =>
        /\ scorer.parts[1] # <<>>
        /\ scorer.parts[1] = SplitOnConjunctions(scorer.text, contrast_words)

\* ------------------------------------------------------------------------
\* Properties of clause_split and of empty candidates (SpecMatch)
\* ------------------------------------------------------------------------

\* C25: clause_split returns a non-empty list that holds the normalized
\* non-empty pieces of a split at every comma, semicolon and standalone
\* `and` in any letter case: the clauses of a sentence are those of the
\* sentence in lower case.
C25_AndSplitInAnyCase ==
    matcher.pc # "idle" =>
        /\ matcher.gt_clauses # <<>>
        /\ matcher.gt_clauses = clause_split(Lower(matcher.gt_sentence))

\* C28: for a sentence that is non-empty after normalization, a single
\* candidate that is empty after normalization scores 0.0, as no candidate
\* does.
C28_EmptyCandidateEarnsNothing ==
    ( /\ matcher.pc = "done"
      /\ normalize_text(matcher.gt_sentence) # <<>>
      /\ Len(matcher.candidate_sentences) = 1
      /\ normalize_text(matcher.candidate_sentences[1]) = <<>> )
    => /\ matcher.value = Some(Zero)
       /\ matcher.value = Some(sentence_match_score(matcher.gt_sentence, <<>>))

\* ------------------------------------------------------------------------
\* Properties of the rubric functions against their documentation
\* (SpecRubric)
\* ------------------------------------------------------------------------

\* the distance of the two labels of the scored pair
ScoredLabelDistance == Abs(LabelRank(scorer.gt_label[1]) - LabelRank(scorer.pred_label[1]))

\* C26: label_match_score is 0.75 for two adjacent labels and 0.5 for two
\* labels that are two levels apart.
C26_AdjacentLabelsThreeQuarters ==
    scorer.pc = "done" =>
        /\ ScoredLabelDistance = 1 => scorer.label_score = Some(<<3, 4>>)
        /\ ScoredLabelDistance = 2 => scorer.label_score = Some(Half)

\* C27: a score on a boundary shared by two ranges gets the label of the
\* range whose center is closest to the score.
C27_BoundaryGetsClosestCenter ==
    ( /\ scorer.pc \in {"range", "match", "done"}
      /\ Cardinality(ContainingRanges(Clamp(scorer.pred_score))) = 2 )
    => scorer.pred_label = Some(ClosestCenter(Clamp(scorer.pred_score)).label)

\* the score of a pair is not below the score of a pair whose prediction is
\* farther from the same ground-truth score
CloserNeverLower(gt_score, error, tolerance, value) ==
    \A farther \in PredScores :
        (InScoreRange(farther) /\ RLeq(error, RAbs(RSub(gt_score, farther)))) =>
            RLeq(sentiment_match_with_tolerance(gt_score, farther, tolerance).value, value)

\* the branches meet: 1.0 at error = tolerance, 0.5 at error = 2*tolerance
BranchesMeet(tolerance) ==
    /\ PartialCredit(tolerance, tolerance) = One
    /\ PartialCredit(RMul(Two, tolerance), tolerance) = Half
    /\ PoorMatch(RMul(Two, tolerance), RMul(Two, tolerance),
                 RSub(Two, RMul(Two, tolerance))).value = Half

\* C30: for a tolerance in (0,1) and scores in [-1,1], a prediction farther
\* from the ground-truth score never scores higher than a closer one, the
\* branches of sentiment_match_with_tolerance meet at error = tolerance and
\* at error = 2*tolerance, and the score is the same with gt and pred
\* swapped.
C30_MonotoneInError ==
    (InScoreRange(scorer.gt_score) /\ InScoreRange(scorer.pred_score)) =>
        \A k \in 1..Len(scorer.tolerance_scores) :
            (RLt(Zero, scorer.tolerances[k]) /\ RLt(scorer.tolerances[k], One)) =>
                /\ CloserNeverLower(scorer.gt_score, ScoredError, scorer.tolerances[k],
                                    scorer.tolerance_scores[k].value)
                /\ BranchesMeet(scorer.tolerances[k])
                /\ scorer.tolerance_scores[k] =
                      sentiment_match_with_tolerance(scorer.pred_score, scorer.gt_score,
                                                     scorer.tolerances[k])

\* a prediction above the ground-truth score has been scored between 0 and
\* 0.5 with the tolerance 0.1, and a prediction farther away scores lower
C30_Witness ==
    /\ InScoreRange(scorer.gt_score)
    /\ InScoreRange(scorer.pred_score)
    /\ RLt(scorer.gt_score, scorer.pred_score)
    /\ Len(scorer.tolerance_scores) >= 1
    /\ scorer.tolerances[1] = DEFAULT_TOLERANCE
    /\ RLt(Zero, scorer.tolerance_scores[1].value)
    /\ RLt(scorer.tolerance_scores[1].value, Half)
    /\ \E farther \in PredScores :
          /\ InScoreRange(farther)
          /\ RLt(sentiment_match_with_tolerance(scorer.gt_score, farther,
                                                scorer.tolerances[1]).value,
                 scorer.tolerance_scores[1].value)

\* ------------------------------------------------------------------------
\* Properties of the group of records without factor (SpecByFactor)
\* ------------------------------------------------------------------------

\* the number of ground-truth records of c without a factor
WithoutFactor(c) ==
    Cardinality({k \in 1..Len(args[c].gt_records) : args[c].gt_records[k].factor = None})

\* C29: the group "unknown" counts the ground-truth records without a
\* factor, and the groups' items sum to overall.items.
C29_UnknownGroupCountsRecords ==
    \A c \in Callers :
        pc[c] = "done_by_factor" =>
            /\ \A k \in 1..Len(by_factor[c][1].by_factor) :
                  by_factor[c][1].by_factor[k].factor = "unknown" =>
                      by_factor[c][1].by_factor[k].result.items = WithoutFactor(c)
            /\ SumOf(GroupItems(by_factor[c][1].by_factor)) = by_factor[c][1].overall.items

====
